---- MODULE Spec2Model ----
(***************************************************************************)
(* A model of gatsby-source-contentful's normalization engine              *)
(* (src/normalize.js) and image-derivative / placeholder-cache engine      *)
(* (src/extend-node-type.js).                                              *)
(*                                                                         *)
(* JavaScript strings are TLA+ strings (template literals are \o).  A      *)
(* JavaScript object is a function whose DOMAIN is the set of its own      *)
(* keys.  Where a slot holds values of several JavaScript types (a field   *)
(* value, a node attribute) the value is a record tagged with its kind     *)
(* (JsUndefined, JsNull, Str, ...); where a slot only ever holds a string, *)
(* undefined or null (a locale code) the strings UNDEFINED and NULL, which *)
(* no input set contains, stand for the latter two.                        *)
(*                                                                         *)
(* Each subsystem has its own specification (SpecId, SpecLocale, ...);     *)
(* a specification leaves the variables of the other subsystems idle.     *)
(***************************************************************************)
EXTENDS Integers, Sequences, FiniteSets, TLC

VARIABLES
  idCall,      \* the last makeId call: its arguments and its result
  locCall,     \* the last getLocalizedField call: arguments and result
  inFlightBase64Cache,  \* Map: request url -> id of the registered promise
  resolvedBase64Cache,  \* Map: request url -> base64 body
  promises,    \* every promise created so far, by id
  fetches,     \* every fetchContentfulAsset dispatched so far
  calls,       \* every getBase64Image call so far and what it returned
  imgCall,     \* the last image-derivative call: arguments and result
  assetCall,   \* the last createAssetNodes call: arguments and outcome
  syncData,    \* the merged sync snapshot, content types and plugin options
  nodeStore,   \* the node store: node id -> node
  indexes,     \* entryList, resolvable and foreignReferenceMap of the pass
  normTrace,   \* the createNodesForContentType calls of the current pass
  normPc       \* the pass number and how far the pass has come

cacheVars == <<inFlightBase64Cache, resolvedBase64Cache, promises, fetches,
               calls>>
normVars == <<syncData, nodeStore, indexes, normTrace, normPc>>
vars == <<idCall, locCall, cacheVars, imgCall, assetCall, normVars>>

(***************************************************************************)
(* JavaScript values                                                       *)
(***************************************************************************)
UNDEFINED == "<undefined>"
NULL == "<null>"

\* Tagged values.
JsUndefined == [kind |-> "undefined"]
JsNull == [kind |-> "null"]
Str(s) == [kind |-> "string", s |-> s]
Thrown(e) == [kind |-> "throw", error |-> e]
\* Thrown by the engine when the call stack is exhausted.
RangeError == Thrown("RangeError: Maximum call stack size exceeded")
NoCall == [op |-> "none"]
\* The result of a call that has not run yet.
Pending == "<pending>"

\* obj[k]: undefined for a key the object does not own (null and undefined
\* keys are coerced to names no object of the model owns).
Get(obj, k) == IF k \in DOMAIN obj THEN obj[k] ELSE UNDEFINED
\* The same for an object of tagged values.
GetV(obj, k) == IF k \in DOMAIN obj THEN obj[k] ELSE JsUndefined

\* String.prototype.startsWith
StartsWith(s, p) == Len(s) >= Len(p) /\ SubSeq(s, 1, Len(p)) = p

\* String.prototype.substring(n): the string without its first n characters
Substring(s, n) == SubSeq(s, n + 1, Len(s))

(***************************************************************************)
(* IdentityScheme: makeId (normalize.js 38-45)                             *)
(***************************************************************************)
SpaceIds == {"sp1", "sp2"}
EntityIds == {"a1", "b2", "c3"}
LocaleCodes == {"en", "de", "fr"}
SysTypes == {"Entry", "Asset", "DeletedEntry", "DeletedAsset"}

\* A variant that forgets to strip the Deleted prefix.
makeId_keepsDeleted(spaceId, id, currentLocale, defaultLocale, type) ==
  IF currentLocale = defaultLocale
    THEN spaceId \o "___" \o id \o "___" \o type
    ELSE spaceId \o "___" \o id \o "___" \o type \o "___" \o currentLocale

makeId(spaceId, id, currentLocale, defaultLocale, type) ==
  LET normalizedType == IF StartsWith(type, "Deleted")
                          THEN Substring(type, Len("Deleted"))
                          ELSE type
  IN IF currentLocale = defaultLocale
       THEN spaceId \o "___" \o id \o "___" \o normalizedType
       ELSE spaceId \o "___" \o id \o "___" \o normalizedType
              \o "___" \o currentLocale

IdIdle == idCall = NoCall

\* The calls of makeId the model makes.
IdCalls ==
  { [op |-> "makeId", spaceId |-> s, id |-> i, currentLocale |-> cl,
     defaultLocale |-> dl, type |-> t, result |-> Pending] :
      s \in SpaceIds, i \in EntityIds, cl \in LocaleCodes,
      dl \in LocaleCodes, t \in SysTypes }

CallMakeId ==
  /\ idCall # NoCall
  /\ idCall.result = Pending
  /\ idCall' = [idCall EXCEPT !.result =
                  makeId(idCall.spaceId, idCall.id, idCall.currentLocale,
                         idCall.defaultLocale, idCall.type)]
  /\ UNCHANGED <<locCall, cacheVars, imgCall, assetCall, normVars>>

(***************************************************************************)
(* LocaleResolver: buildFallbackChain, getLocalizedField                   *)
(* (normalize.js 8-31)                                                     *)
(***************************************************************************)
\* Depth of the engine's call stack, in getLocalizedField frames.
MaxCallStack == 6

\* What a locale record's fallbackCode can hold: nothing (the key is absent,
\* so it reads undefined), null (what the delivery API sends for a locale
\* without fallback) or a locale code.
FallbackCodes == LocaleCodes \cup {UNDEFINED, NULL}

\* The locales lists (arrays of locale records): the codes in a fixed
\* order, with every fallback assignment (cycles included).
LocaleOrder == <<"en", "de", "fr">>
LocaleLists ==
  { [i \in DOMAIN LocaleOrder |->
       [code |-> LocaleOrder[i], fallbackCode |-> f[LocaleOrder[i]]]] :
      f \in [LocaleCodes -> FallbackCodes] }

\* buildFallbackChain: localesFallback[locale.code] = locale.fallbackCode
buildFallbackChain(locales) ==
  [c \in { locales[k].code : k \in DOMAIN locales } |->
     (CHOOSE l \in { locales[k] : k \in DOMAIN locales } : l.code = c).fallbackCode]

\* A field bag holds, per locale code, a value, null, or nothing.
FieldValues == {Str("hello"), JsNull}
FieldBags ==
  UNION { [S -> FieldValues] : S \in SUBSET LocaleCodes }

RECURSIVE glfFrame(_, _, _, _)
glfFrame(field, code, localesFallback, stack) ==
  IF stack = 0 THEN RangeError
  ELSE IF GetV(field, code) # JsUndefined THEN GetV(field, code)
  ELSE IF code # UNDEFINED /\ Get(localesFallback, code) # UNDEFINED
    THEN glfFrame(field, Get(localesFallback, code), localesFallback, stack - 1)
  ELSE JsNull

\* A variant that follows the fallback only when the fallback locale itself
\* has a value in the bag.
RECURSIVE glfFrame_directOnly(_, _, _, _)
glfFrame_directOnly(field, code, localesFallback, stack) ==
  IF stack = 0 THEN RangeError
  ELSE IF GetV(field, code) # JsUndefined THEN GetV(field, code)
  ELSE IF /\ code # UNDEFINED
          /\ Get(localesFallback, code) # UNDEFINED
          /\ GetV(field, Get(localesFallback, code)) # JsUndefined
    THEN glfFrame_directOnly(field, Get(localesFallback, code),
                             localesFallback, stack - 1)
  ELSE JsNull

getLocalizedField_directOnly(field, locale, localesFallback) ==
  glfFrame_directOnly(field, locale.code, localesFallback, MaxCallStack)

\* A variant that recurses with the same locale instead of its fallback.
RECURSIVE glfFrame_sameLocale(_, _, _, _)
glfFrame_sameLocale(field, code, localesFallback, stack) ==
  IF stack = 0 THEN RangeError
  ELSE IF GetV(field, code) # JsUndefined THEN GetV(field, code)
  ELSE IF code # UNDEFINED /\ Get(localesFallback, code) # UNDEFINED
    THEN glfFrame_sameLocale(field, code, localesFallback, stack - 1)
  ELSE JsNull

getLocalizedField_sameLocale(field, locale, localesFallback) ==
  glfFrame_sameLocale(field, locale.code, localesFallback, MaxCallStack)

getLocalizedField(field, locale, localesFallback) ==
  glfFrame(field, locale.code, localesFallback, MaxCallStack)

LocIdle == locCall = NoCall

\* The calls of getLocalizedField the model makes.
LocCalls ==
  { [op |-> "getLocalizedField", field |-> field, locale |-> [code |-> c],
     localesFallback |-> buildFallbackChain(locales), done |-> FALSE, result |-> JsUndefined] :
      locales \in LocaleLists, field \in FieldBags, c \in LocaleCodes }

CallGetLocalizedField ==
  /\ locCall # NoCall
  /\ ~locCall.done
  /\ locCall' = [locCall EXCEPT
                   !.done = TRUE,
                   !.result = getLocalizedField(locCall.field, locCall.locale,
                                                locCall.localesFallback)]
  /\ UNCHANGED <<idCall, cacheVars, imgCall, assetCall, normVars>>

(***************************************************************************)
(* createUrl (extend-node-type.js 125-143)                                 *)
(***************************************************************************)
\* `options.k || undefined` for a numeric option: absent, or 0, is dropped.
HasNum(options, k) == k \in DOMAIN options /\ options[k] # 0
\* `options.k || undefined` for a string option.
HasStr(options, k) == k \in DOMAIN options /\ options[k] # ""

RECURSIVE Join(_, _)
Join(parts, sep) ==
  IF Len(parts) = 0 THEN ""
  ELSE IF Len(parts) = 1 THEN parts[1]
  ELSE parts[1] \o sep \o Join(Tail(parts), sep)

\* qs.stringify(urlArgs): the defined arguments, in the order urlArgs lists
\* them, as k=v joined by &.
QueryString(options) ==
  LET num(k, short) == IF HasNum(options, k)
                         THEN <<short \o "=" \o ToString(options[k])>>
                         ELSE <<>>
      str(k, short) == IF HasStr(options, k)
                         THEN <<short \o "=" \o options[k]>>
                         ELSE <<>>
      fl == IF /\ HasStr(options, "toFormat")
               /\ options["toFormat"] = "jpg"
               /\ "jpegProgressive" \in DOMAIN options
               /\ options["jpegProgressive"]
              THEN <<"fl=progressive">> ELSE <<>>
  IN Join(num("width", "w") \o num("height", "h") \o fl
            \o num("quality", "q") \o str("toFormat", "fm")
            \o str("resizingBehavior", "fit") \o str("cropFocus", "f")
            \o str("background", "bg"), "&")

createUrl(imgUrl, options) == "https:" \o imgUrl \o "?" \o QueryString(options)

(***************************************************************************)
(* PlaceholderCache: getBase64Image (extend-node-type.js 31-35, 56-105)    *)
(***************************************************************************)
\* Number of getBase64Image calls a behaviour makes.
MaxCalls == 4

\* String.prototype.indexOf(sub) !== -1
Contains(s, sub) ==
  \E i \in 1..(Len(s) - Len(sub) + 1) : SubSeq(s, i, i + Len(sub) - 1) = sub

\* The imageProps handed to getBase64Image: null (a record whose baseUrl is
\* NULL stands for it), or a record with a baseUrl on the Image API host or
\* elsewhere.
NullImageProps == [baseUrl |-> NULL]
ImagePropsInputs ==
  { [baseUrl |-> u] :
      u \in {NULL,
             "//images.ctfassets.net/sp1/a.jpg",
             "//images.ctfassets.net/sp1/b.png",
             "//videos.ctfassets.net/sp1/c.mp4"} }

\* What loadImageAsBase64 resolves to for a request url.
Base64Body(requestUrl) == "data:image/jpeg;base64," \o requestUrl

\* What a call returned: null, a body (synchronously) or a promise.
ReturnNull == [t |-> "null", body |-> "", promise |-> 0]
ReturnBody(b) == [t |-> "body", body |-> b, promise |-> 0]
ReturnPromise(p) == [t |-> "promise", body |-> "", promise |-> p]

\* Map.prototype.set / delete on a map held as a function.
MapSet(map, k, v) ==
  [x \in DOMAIN map \cup {k} |-> IF x = k THEN v ELSE map[x]]
MapDelete(map, k) == [x \in DOMAIN map \ {k} |-> map[x]]

\* A variant of line 98 that forgets to register the promise.
RegisterInFlight_forgets(map, requestUrl, promise) == map

\* Line 98: inFlightBase64Cache.set(requestUrl, promise)
RegisterInFlight(map, requestUrl, promise) == MapSet(map, requestUrl, promise)

\* A variant that evicts the url from the in-flight map however the promise
\* settled.
InFlightAfterSettle_evicts(map, requestUrl, state) == MapDelete(map, requestUrl)

\* A variant that never deletes the url from the in-flight map.
InFlightAfterSettle_keeps(map, requestUrl, state) == map

\* Lines 100-104: only the fulfilment reaction deletes the url; `then` has
\* no rejection handler, so a rejected promise stays registered.
InFlightAfterSettle(map, requestUrl, state) ==
  IF state = "fulfilled" THEN MapDelete(map, requestUrl) ELSE map

\* A variant that keeps only the body resolved last.
ResolvedAfterSettle_keepsLatest(map, requestUrl, state) ==
  IF state = "fulfilled"
    THEN [x \in {requestUrl} |-> Base64Body(requestUrl)]
    ELSE map

\* Line 102: the fulfilment reaction stores the body under the url; nothing
\* else writes to the resolved map, and nothing deletes from it.
ResolvedAfterSettle(map, requestUrl, state) ==
  IF state = "fulfilled"
    THEN MapSet(map, requestUrl, Base64Body(requestUrl))
    ELSE map

CacheIdle ==
  /\ inFlightBase64Cache = <<>>
  /\ resolvedBase64Cache = <<>>
  /\ promises = <<>>
  /\ fetches = <<>>
  /\ calls = <<>>

\* The call is recorded with what it returned and, for the record, how the
\* promise registered for its url (and that promise's `then` reaction) stood
\* when the call was made ("none" when no promise was registered).
Returns(imageProps, requestUrl, ret) ==
  LET p == IF requestUrl \in DOMAIN inFlightBase64Cache
             THEN inFlightBase64Cache[requestUrl] ELSE 0
  IN calls' = Append(calls,
       [imageProps |-> imageProps, requestUrl |-> requestUrl, ret |-> ret,
        inFlightState |-> IF p = 0 THEN "none" ELSE promises[p].state,
        reactionState |-> IF p = 0 THEN "none" ELSE promises[p + 1].state])

\* One call of getBase64Image: it runs to its return without a suspension
\* point (the only awaits are inside loadImageAsBase64, after the fetch has
\* been dispatched).
GetBase64Image(imageProps) ==
  /\ Len(calls) < MaxCalls
  /\ IF imageProps = NullImageProps
       THEN /\ Returns(imageProps, "", ReturnNull)
            /\ UNCHANGED <<inFlightBase64Cache, resolvedBase64Cache,
                           promises, fetches>>
     ELSE IF ~Contains(imageProps.baseUrl, "images.ctfassets.net")
       THEN /\ Returns(imageProps, "", ReturnNull)
            /\ UNCHANGED <<inFlightBase64Cache, resolvedBase64Cache,
                           promises, fetches>>
     ELSE
       LET requestUrl == createUrl(imageProps.baseUrl,
                                   [width |-> 20, toFormat |-> "jpg"])
       IN IF requestUrl \in DOMAIN resolvedBase64Cache
            THEN /\ Returns(imageProps, requestUrl,
                            ReturnBody(resolvedBase64Cache[requestUrl]))
                 /\ UNCHANGED <<inFlightBase64Cache, resolvedBase64Cache,
                                promises, fetches>>
          ELSE IF requestUrl \in DOMAIN inFlightBase64Cache
            THEN /\ Returns(imageProps, requestUrl,
                            ReturnPromise(inFlightBase64Cache[requestUrl]))
                 /\ UNCHANGED <<inFlightBase64Cache, resolvedBase64Cache,
                                promises, fetches>>
          ELSE
            LET promise == Len(promises) + 1
                derived == Len(promises) + 2
            IN /\ fetches' = Append(fetches, [url |-> requestUrl,
                                              promise |-> promise])
               /\ promises' = promises \o
                    << [kind |-> "load", url |-> requestUrl, parent |-> 0,
                        state |-> "pending"],
                       [kind |-> "then", url |-> requestUrl,
                        parent |-> promise, state |-> "pending"] >>
               /\ inFlightBase64Cache' =
                    RegisterInFlight(inFlightBase64Cache, requestUrl, promise)
               /\ Returns(imageProps, requestUrl, ReturnPromise(derived))
               /\ UNCHANGED resolvedBase64Cache
  /\ UNCHANGED <<idCall, locCall, imgCall, assetCall, normVars>>

\* fetchContentfulAsset and fs.readFile both succeeded: loadImageAsBase64
\* returns the body and its promise is fulfilled.
LoadFulfils(p) ==
  /\ promises[p].kind = "load"
  /\ promises[p].state = "pending"
  /\ promises' = [promises EXCEPT ![p].state = "fulfilled"]
  /\ UNCHANGED <<inFlightBase64Cache, resolvedBase64Cache, fetches, calls,
                 idCall, locCall, imgCall, assetCall, normVars>>

\* fetchContentfulAsset or fs.readFile failed: the promise is rejected.
LoadRejects(p) ==
  /\ promises[p].kind = "load"
  /\ promises[p].state = "pending"
  /\ promises' = [promises EXCEPT ![p].state = "rejected"]
  /\ UNCHANGED <<inFlightBase64Cache, resolvedBase64Cache, fetches, calls,
                 idCall, locCall, imgCall, assetCall, normVars>>

\* The reaction of promise.then(body => ...) (lines 100-104), run as a
\* microtask once the load promise has settled: on fulfilment the callback
\* moves the url from the in-flight map to the resolved map; on rejection no
\* callback runs and the derived promise is rejected with the same reason.
ThenReaction(d) ==
  /\ promises[d].kind = "then"
  /\ promises[d].state = "pending"
  /\ promises[promises[d].parent].state # "pending"
  /\ LET settled == promises[promises[d].parent].state
         requestUrl == promises[d].url
     IN /\ inFlightBase64Cache' =
             InFlightAfterSettle(inFlightBase64Cache, requestUrl, settled)
        /\ resolvedBase64Cache' =
             ResolvedAfterSettle(resolvedBase64Cache, requestUrl, settled)
        /\ promises' = [promises EXCEPT ![d].state = settled]
  /\ UNCHANGED <<fetches, calls, idCall, locCall, imgCall, assetCall, normVars>>

(***************************************************************************)
(* ImageDerivativeEngine: resolveFixed, resolveFluid, resolveResize        *)
(* (extend-node-type.js 38-53, 107-123, 195-432)                           *)
(*                                                                         *)
(* Dimensions are positive integers; an aspect ratio is the exact fraction *)
(* <<numerator, denominator>>, and Math.round is taken of exact quotients. *)
(***************************************************************************)
CONTENTFUL_IMAGE_MAX_SIZE == 4000
DefaultFixedWidth == 400
DefaultFluidMaxWidth == 800
DefaultResizeWidth == 400

mimeTypeExtensions ==
  [t \in {"image/jpeg", "image/jpg", "image/gif", "image/png", "image/webp"} |->
     CASE t = "image/gif" -> ".gif"
       [] t = "image/png" -> ".png"
       [] t = "image/webp" -> ".webp"
       [] OTHER -> ".jpg"]

\* isImage: mimeTypeExtensions.has(image?.file?.contentType)
isImage(image) == image.file.contentType \in DOMAIN mimeTypeExtensions

\* Math.round(a / b) for b > 0: the nearest integer, halves rounded up.
RoundDiv(a, b) == (2 * a + b) \div (2 * b)

\* `x !== undefined` for an option.
Defined(options, k) == k \in DOMAIN options

\* { ...options, ...overrides }
Spread(options, overrides) ==
  [k \in DOMAIN options \cup DOMAIN overrides |->
     IF k \in DOMAIN overrides THEN overrides[k] ELSE options[k]]

\* options.k = v
Assign(options, k, v) == Spread(options, [x \in {k} |-> v])

getBasicImageProps(image, args) ==
  [baseUrl |-> image.file.url,
   contentType |-> image.file.contentType,
   aspectRatio |->
     IF HasNum(args, "width") /\ HasNum(args, "height")
       THEN <<args["width"], args["height"]>>
       ELSE <<image.file.details.image.width,
              image.file.details.image.height>>,
   width |-> image.file.details.image.width,
   height |-> image.file.details.image.height]

\* Array.prototype.filter is SelectSeq.

\* lodash sortBy on numbers: ascending, stable (insertion sort).
InsertSorted(sorted, x) ==
  SelectSeq(sorted, LAMBDA y : y <= x) \o <<x>>
    \o SelectSeq(sorted, LAMBDA y : y > x)

\* A variant that returns the list back to front.
sortBy_backwards(seq) == [i \in DOMAIN seq |-> seq[Len(seq) + 1 - i]]
RECURSIVE sortBy(_)
sortBy(seq) ==
  IF seq = <<>> THEN <<>>
  ELSE InsertSorted(sortBy(SubSeq(seq, 1, Len(seq) - 1)), seq[Len(seq)])

Includes(seq, x) == \E i \in DOMAIN seq : seq[i] = x

\* A variant of the size filter without the source-width test.
FixedSizeFits_ignoresSource(size, desiredAspectRatio, width) ==
  /\ size <= CONTENTFUL_IMAGE_MAX_SIZE
  /\ RoundDiv(size * desiredAspectRatio[2], desiredAspectRatio[1])
       <= CONTENTFUL_IMAGE_MAX_SIZE

\* resolveFixed's filter (lines 239-246)
FixedSizeFits(size, desiredAspectRatio, width) ==
  LET calculatedHeight ==
        RoundDiv(size * desiredAspectRatio[2], desiredAspectRatio[1])
  IN /\ size <= CONTENTFUL_IMAGE_MAX_SIZE
     /\ calculatedHeight <= CONTENTFUL_IMAGE_MAX_SIZE
     /\ size <= width

\* resolveFluid's filter (lines 346-353)
FluidSizeFits(size, desiredAspectRatio, width) ==
  LET calculatedHeight ==
        RoundDiv(size * desiredAspectRatio[2], desiredAspectRatio[1])
  IN /\ size <= CONTENTFUL_IMAGE_MAX_SIZE
     /\ calculatedHeight <= CONTENTFUL_IMAGE_MAX_SIZE
     /\ size <= width

\* The density label of the i-th entry of the sorted list (lines 254-269;
\* JavaScript counts from 0).
FixedResolution(i) ==
  CASE i = 1 -> "1x"
    [] i = 2 -> "1.5x"
    [] i = 3 -> "2x"
    [] i = 4 -> "3x"
    [] OTHER -> UNDEFINED

NullResult == [isNull |-> TRUE]

\* The srcSet string: the entries joined by ",\n".
SrcSetString(entries) ==
  Join([i \in DOMAIN entries |->
          entries[i].url \o " " \o entries[i].descriptor], ",\n")

\* Lines 202-205: if no dimension is given, set a default width.
FixedDefaultWidth(options) ==
  IF ~Defined(options, "width") /\ ~Defined(options, "height")
    THEN Assign(options, "width", DefaultFixedWidth)
    ELSE options

\* Lines 207-210: if only a height is given, derive the width from it.
FixedWidthFromHeight(options, aspectRatio) ==
  IF Defined(options, "height") /\ ~Defined(options, "width")
    THEN Assign(options, "width",
                RoundDiv(options["height"] * aspectRatio[1], aspectRatio[2]))
    ELSE options

\* Lines 217-223: width and height both set and no fit option: fill.
FixedDefaultFit(options) ==
  IF /\ Defined(options, "width")
     /\ Defined(options, "height")
     /\ ~HasStr(options, "resizingBehavior")
    THEN Assign(options, "resizingBehavior", "fill")
    ELSE options

\* The options object as resolveFixed leaves it (lines 202-223).
FixedOptions(image, options) ==
  FixedDefaultFit(
    FixedWidthFromHeight(FixedDefaultWidth(options),
                         getBasicImageProps(image, options).aspectRatio))

\* Lines 200, 212-215
FixedDesiredAspectRatio(basic, opts) ==
  IF Defined(opts, "width") /\ Defined(opts, "height")
    THEN <<opts["width"], opts["height"]>>
    ELSE basic.aspectRatio

\* Lines 231-236
FixedSizes(opts) ==
  << opts["width"], RoundDiv(opts["width"] * 3, 2),
     opts["width"] * 2, opts["width"] * 3 >>

\* Lines 252-276: one srcSet entry
FixedCandidate(baseUrl, opts, ratio, size, i) ==
  [width |-> size,
   height |-> RoundDiv(size * ratio[2], ratio[1]),
   descriptor |-> FixedResolution(i),
   url |-> createUrl(baseUrl,
             Spread(opts, [width |-> size,
                           height |-> RoundDiv(size * ratio[2], ratio[1])]))]

\* Lines 279-299
FixedDescriptor(basic, opts, ratio, entries) ==
  [isNull |-> FALSE,
   aspectRatio |-> ratio,
   baseUrl |-> basic.baseUrl,
   width |-> IF HasNum(opts, "height")
               THEN RoundDiv(opts["height"] * ratio[1], ratio[2])
               ELSE opts["width"],
   height |-> IF HasNum(opts, "height")
                THEN opts["height"]
                ELSE RoundDiv(opts["width"] * ratio[2], ratio[1]),
   src |-> createUrl(basic.baseUrl, opts),
   candidates |-> entries,
   srcSet |-> SrcSetString(entries),
   optionsAfter |-> opts]

\* Lines 238-276: filter, sort, build the entries
FixedSorted(basic, opts, ratio, sortedSizes) ==
  FixedDescriptor(basic, opts, ratio,
    [i \in DOMAIN sortedSizes |->
       FixedCandidate(basic.baseUrl, opts, ratio, sortedSizes[i], i)])

FixedWithRatio(basic, opts, ratio) ==
  FixedSorted(basic, opts, ratio,
    sortBy(SelectSeq(FixedSizes(opts),
                     LAMBDA size : FixedSizeFits(size, ratio, basic.width))))

FixedWithOptions(basic, opts) ==
  FixedWithRatio(basic, opts, FixedDesiredAspectRatio(basic, opts))

resolveFixed(image, options) ==
  IF ~isImage(image) THEN NullResult
  ELSE FixedWithOptions(getBasicImageProps(image, options),
                        FixedOptions(image, options))

\* Lines 310-313: if no dimension is given, set a default maxWidth.
FluidDefaultMaxWidth(options) ==
  IF ~Defined(options, "maxWidth") /\ ~Defined(options, "maxHeight")
    THEN Assign(options, "maxWidth", DefaultFluidMaxWidth)
    ELSE options

\* Lines 315-318: if only a maxHeight is given, derive the maxWidth.
FluidMaxWidthFromHeight(options, aspectRatio) ==
  IF Defined(options, "maxHeight") /\ ~Defined(options, "maxWidth")
    THEN Assign(options, "maxWidth",
                RoundDiv(options["maxHeight"] * aspectRatio[1],
                         aspectRatio[2]))
    ELSE options

\* Lines 325-328: a default sizes hint.
FluidDefaultSizes(options) ==
  IF ~HasStr(options, "sizes")
    THEN Assign(options, "sizes",
                "(max-width: " \o ToString(options["maxWidth"])
                  \o "px) 100vw, " \o ToString(options["maxWidth"]) \o "px")
    ELSE options

\* The options object as resolveFluid leaves it (lines 310-328).
FluidOptions(image, options) ==
  FluidDefaultSizes(
    FluidMaxWidthFromHeight(FluidDefaultMaxWidth(options),
                            getBasicImageProps(image, options).aspectRatio))

\* Lines 308, 320-323
FluidDesiredAspectRatio(basic, opts) ==
  IF Defined(opts, "maxHeight") /\ Defined(opts, "maxWidth")
    THEN <<opts["maxWidth"], opts["maxHeight"]>>
    ELSE basic.aspectRatio

\* Lines 336-343
FluidSizes(maxWidth) ==
  << RoundDiv(maxWidth, 4), RoundDiv(maxWidth, 2), maxWidth,
     RoundDiv(maxWidth * 3, 2), maxWidth * 2, maxWidth * 3 >>

\* Lines 355-363: add the original width, if it is not there already.
FluidAddOriginal(filteredSizes, width, ratio) ==
  IF /\ ~Includes(filteredSizes, width)
     /\ width < CONTENTFUL_IMAGE_MAX_SIZE
     /\ RoundDiv(width * ratio[2], ratio[1]) < CONTENTFUL_IMAGE_MAX_SIZE
    THEN Append(filteredSizes, width)
    ELSE filteredSizes

\* Lines 369-377: one srcSet entry
FluidCandidate(url, opts, ratio, width) ==
  [width |-> width,
   height |-> RoundDiv(width * ratio[2], ratio[1]),
   descriptor |-> ToString(width) \o "w",
   url |-> createUrl(url,
             Spread(opts, [width |-> width,
                           height |-> RoundDiv(width * ratio[2], ratio[1])]))]

\* Lines 383-387: { ...options, width: options.maxWidth, height:
\* options.maxHeight } (an undefined height is as good as absent)
FluidSrcOptions(opts) ==
  IF Defined(opts, "maxHeight")
    THEN Spread(opts, [width |-> opts["maxWidth"],
                       height |-> opts["maxHeight"]])
    ELSE Spread(opts, [width |-> opts["maxWidth"]])

\* Lines 380-390
FluidDescriptor(basic, opts, ratio, entries) ==
  [isNull |-> FALSE,
   aspectRatio |-> ratio,
   baseUrl |-> basic.baseUrl,
   src |-> createUrl(basic.baseUrl, FluidSrcOptions(opts)),
   candidates |-> entries,
   srcSet |-> SrcSetString(entries),
   sizes |-> opts["sizes"],
   optionsAfter |-> opts]

FluidSorted(basic, opts, ratio, sortedSizes) ==
  FluidDescriptor(basic, opts, ratio,
    [i \in DOMAIN sortedSizes |->
       FluidCandidate(basic.baseUrl, opts, ratio, sortedSizes[i])])

FluidWithRatio(basic, opts, ratio) ==
  FluidSorted(basic, opts, ratio,
    sortBy(FluidAddOriginal(
             SelectSeq(FluidSizes(opts["maxWidth"]),
                       LAMBDA size : FluidSizeFits(size, ratio, basic.width)),
             basic.width, ratio)))

FluidWithOptions(basic, opts) ==
  FluidWithRatio(basic, opts, FluidDesiredAspectRatio(basic, opts))

resolveFluid(image, options) ==
  IF ~isImage(image) THEN NullResult
  ELSE FluidWithOptions(getBasicImageProps(image, options),
                        FluidOptions(image, options))

\* The options object as resolveResize leaves it.  Lines 399-402: if no
\* dimension is given, set a default width; lines 404-410: width and height
\* both set and no fit option: fill.
ResizeOptions(options) ==
  LET sized == IF ~Defined(options, "width") /\ ~Defined(options, "height")
                 THEN Assign(options, "width", DefaultResizeWidth)
                 ELSE options
  IN IF /\ Defined(sized, "width")
        /\ Defined(sized, "height")
        /\ ~HasStr(sized, "resizingBehavior")
       THEN Assign(sized, "resizingBehavior", "fill")
       ELSE sized

\* Lines 412-429: the missing dimension is derived from the aspect ratio
\* that getBasicImageProps computed from the options as they were passed.
ResizeDescriptor(image, basic, opts) ==
  [isNull |-> FALSE,
   src |-> createUrl(image.file.url, opts),
   width |-> IF Defined(opts, "width") THEN opts["width"]
             ELSE RoundDiv(opts["height"] * basic.aspectRatio[1],
                           basic.aspectRatio[2]),
   height |-> IF Defined(opts, "height") THEN opts["height"]
              ELSE RoundDiv(opts["width"] * basic.aspectRatio[2],
                            basic.aspectRatio[1]),
   aspectRatio |-> basic.aspectRatio,
   baseUrl |-> basic.baseUrl,
   optionsAfter |-> opts]

resolveResize(image, options) ==
  IF ~isImage(image) THEN NullResult
  ELSE ResizeDescriptor(image, getBasicImageProps(image, options),
                        ResizeOptions(options))

(***************************************************************************)
(* generateImageSource (extend-node-type.js 40-41, 146-183)                *)
(***************************************************************************)
validImageFormats == {"jpg", "png", "webp", "gif"}

\* JavaScript numbers are IEEE 754 doubles.  A positive double is
\* [bits, exp]: 53 binary digits, the first of them 1, the j-th of weight
\* 2^(exp - (j - 1)).  Every quotient and product is rounded to the nearest
\* double, ties to the even one.
\* The binary digits of a natural number, most significant first.
RECURSIVE BitsOf(_)
BitsOf(n) == IF n = 0 THEN <<>> ELSE Append(BitsOf(n \div 2), n % 2)
\* The double nearest to the number whose binary digits (the first of them
\* 1, of weight 2^exp) are given; rest says that more nonzero digits follow.
Rounded(digits, exp, rest) ==
  IF ~(/\ digits[54] = 1
       /\ \/ rest
          \/ \E j \in 55..Len(digits) : digits[j] = 1
          \/ digits[53] = 1)
    THEN [bits |-> SubSeq(digits, 1, 53), exp |-> exp]
  ELSE IF \A j \in 1..53 : digits[j] = 1
    THEN [bits |-> [j \in 1..53 |-> IF j = 1 THEN 1 ELSE 0], exp |-> exp + 1]
  ELSE [bits |-> [j \in 1..53 |->
                    IF \A k \in (j + 1)..53 : digits[k] = 1
                      THEN 1 - digits[j] ELSE digits[j]],
        exp |-> exp]
\* a / b for positive integers: long division to 54 significant digits.
FloatDiv(a, b) ==
  LET int == BitsOf(a \div b)
      rem[i \in 0..70] == IF i = 0 THEN a % b ELSE (2 * rem[i - 1]) % b
      digit(i) == IF i <= Len(int) THEN int[i]
                  ELSE (2 * rem[i - Len(int) - 1]) \div b
      lead == CHOOSE i \in 1..17 :
                digit(i) = 1 /\ \A k \in 1..(i - 1) : digit(k) = 0
  IN CHOOSE x \in {Rounded(digits, Len(int) - lead, rest) :
                      digits \in {[j \in 1..54 |-> digit(lead + j - 1)]},
                      rest \in {rem[lead + 53 - Len(int)] # 0}} : TRUE
\* x * c for a double x and a small positive integer c.
FloatTimes(x, c) ==
  CHOOSE y \in
    {LET carry[i \in 0..53] ==
           IF i = 0 THEN 0 ELSE (v.bits[54 - i] * c + carry[i - 1]) \div 2
         low == [j \in 1..53 |-> (v.bits[j] * c + carry[53 - j]) % 2]
     IN CHOOSE z \in {Rounded(digits, v.exp + Len(digits) - 54, FALSE) :
                        digits \in {BitsOf(carry[53]) \o low \o <<0>>}} :
          TRUE : v \in {x}} : TRUE
\* Math.floor of a double below 2^31.
FloatFloor(x) ==
  CHOOSE n \in
    {LET value[j \in 0..53] ==
           IF j = 0 THEN 0 ELSE 2 * value[j - 1] + v.bits[j]
     IN IF v.exp < 0 THEN 0 ELSE value[v.exp + 1] : v \in {x}} : TRUE

\* A variant of the limit that halves what exceeds it.
ClampSize_halved(width, height) ==
  [width |-> IF width > CONTENTFUL_IMAGE_MAX_SIZE
               THEN width \div 2 ELSE width,
   height |-> IF height > CONTENTFUL_IMAGE_MAX_SIZE
                THEN height \div 2 ELSE height]
\* Lines 155-163: both dimensions are brought within the Image API limit,
\* the width first: Math.floor((other / exceeding) * CONTENTFUL_IMAGE_MAX_SIZE).
ClampSize(width, height) ==
  LET w1 == IF width > CONTENTFUL_IMAGE_MAX_SIZE
              THEN CONTENTFUL_IMAGE_MAX_SIZE ELSE width
      h1 == IF width > CONTENTFUL_IMAGE_MAX_SIZE
              THEN FloatFloor(FloatTimes(FloatDiv(height, width),
                                         CONTENTFUL_IMAGE_MAX_SIZE))
              ELSE height
  IN IF h1 > CONTENTFUL_IMAGE_MAX_SIZE
       THEN [width |-> FloatFloor(FloatTimes(FloatDiv(w1, h1),
                                             CONTENTFUL_IMAGE_MAX_SIZE)),
             height |-> CONTENTFUL_IMAGE_MAX_SIZE]
       ELSE [width |-> w1, height |-> h1]

\* Lines 172-181: the options createUrl is called with.  A key whose value
\* is undefined is as good as absent; background is
\* backgroundColor?.replace(`#`, `rgb:`) of a colour written #rgb.
SourceUrlOptions(size, toFormat, options) ==
  Spread(
    Spread([width |-> size.width, height |-> size.height,
            toFormat |-> toFormat],
           [k \in DOMAIN options
                    \cap {"resizingBehavior", "quality", "jpegProgressive",
                          "cropFocus"} |-> options[k]]),
    IF "backgroundColor" \in DOMAIN options
      THEN [background |->
              IF StartsWith(options["backgroundColor"], "#")
                THEN "rgb:" \o Substring(options["backgroundColor"], 1)
                ELSE options["backgroundColor"]]
      ELSE <<>>)

\* A variant without the format test.
ImageSource_anyFormat(filename, size, toFormat, options) ==
  [returned |->
     [width |-> size.width, height |-> size.height, format |-> toFormat,
      src |-> createUrl(filename, SourceUrlOptions(size, toFormat, options))],
   warnings |-> <<>>]

\* What the call returns and what it wrote with console.warn.
ImageSource(filename, size, toFormat, options) ==
  IF toFormat \notin validImageFormats
    THEN [returned |-> JsUndefined,
          warnings |-> <<"[gatsby-source-contentful] Invalid image format \""
                           \o toFormat
                           \o "\". Supported types are jpg, png and webp\"">>]
    ELSE [returned |->
            [width |-> size.width, height |-> size.height,
             format |-> toFormat,
             src |-> createUrl(filename,
                               SourceUrlOptions(size, toFormat, options))],
          warnings |-> <<>>]

generateImageSource(filename, width, height, toFormat, options) ==
  ImageSource(filename, ClampSize(width, height), toFormat, options)

\* The asset nodes the model resolves images of.
Images ==
  { [file |-> [url |-> "//images.ctfassets.net/sp1/a.jpg",
               contentType |-> ct,
               details |-> [image |-> [width |-> w, height |-> h]]]] :
      ct \in {"image/jpeg", "video/mp4"},
      w \in {300, 1000, 3000, 5000},
      h \in {200, 1000, 4500} }

\* An option that is absent, or set to one of the values.
Option(k, values) == {<<>>} \cup { [x \in {k} |-> v] : v \in values }

FixedOptionObjects ==
  { Spread(Spread(w, h), r) :
      w \in Option("width", {100, 250, 1500, 2700, 4100}),
      h \in Option("height", {100, 1333, 4100}),
      r \in Option("resizingBehavior", {"pad"}) }

FluidOptionObjects ==
  { Spread(Spread(w, h), z) :
      w \in Option("maxWidth", {200, 800, 2000, 4100}),
      h \in Option("maxHeight", {150, 3000}),
      z \in Option("sizes", {"100vw"}) }

\* The arguments gatsby-plugin-image calls generateImageSource with: the
\* formats include ones the Image API does not serve.
SourceWidths == {300, 2211, 4000, 4100, 4400, 9000}
SourceHeights == {200, 2211, 4000, 4400, 4500}
SourceFormats == {"jpg", "png", "webp", "gif", "avif", "auto", ""}
SourceOptionObjects ==
  { Spread(Spread(q, b), r) :
      q \in Option("quality", {50}),
      b \in Option("backgroundColor", {"#fff"}),
      r \in Option("resizingBehavior", {"pad"}) }

ImgCalls ==
  { [op |-> "resolveFixed", image |-> image, options |-> o, done |-> FALSE,
     result |-> NullResult] :
      image \in Images,
      o \in FixedOptionObjects }
  \cup
  { [op |-> "resolveFluid", image |-> image, options |-> o, done |-> FALSE,
     result |-> NullResult] :
      image \in Images,
      o \in FluidOptionObjects }
  \cup
  { [op |-> "resolveResize", image |-> image, options |-> o, done |-> FALSE,
     result |-> NullResult] :
      image \in Images,
      o \in FixedOptionObjects }
  \cup
  { [op |-> "generateImageSource",
     filename |-> "//images.ctfassets.net/sp1/a.jpg",
     width |-> w, height |-> h, toFormat |-> f, options |-> o,
     done |-> FALSE, result |-> JsUndefined, warnings |-> <<>>] :
      w \in SourceWidths, h \in SourceHeights, f \in SourceFormats,
      o \in SourceOptionObjects }

ImgIdle == imgCall = NoCall

CallResolveFixed ==
  /\ imgCall # NoCall
  /\ imgCall.op = "resolveFixed"
  /\ ~imgCall.done
  /\ imgCall' = [imgCall EXCEPT
                   !.done = TRUE,
                   !.result = resolveFixed(imgCall.image, imgCall.options)]
  /\ UNCHANGED <<idCall, locCall, cacheVars, assetCall, normVars>>

CallResolveFluid ==
  /\ imgCall # NoCall
  /\ imgCall.op = "resolveFluid"
  /\ ~imgCall.done
  /\ imgCall' = [imgCall EXCEPT
                   !.done = TRUE,
                   !.result = resolveFluid(imgCall.image, imgCall.options)]
  /\ UNCHANGED <<idCall, locCall, cacheVars, assetCall, normVars>>

CallResolveResize ==
  /\ imgCall # NoCall
  /\ imgCall.op = "resolveResize"
  /\ ~imgCall.done
  /\ imgCall' = [imgCall EXCEPT
                   !.done = TRUE,
                   !.result = resolveResize(imgCall.image, imgCall.options)]
  /\ UNCHANGED <<idCall, locCall, cacheVars, assetCall, normVars>>

CallGenerateImageSource ==
  /\ imgCall # NoCall
  /\ imgCall.op = "generateImageSource"
  /\ ~imgCall.done
  /\ \E call \in {generateImageSource(imgCall.filename, imgCall.width,
                                       imgCall.height, imgCall.toFormat,
                                       imgCall.options)} :
       imgCall' = [imgCall EXCEPT !.done = TRUE,
                                  !.result = call.returned,
                                  !.warnings = call.warnings]
  /\ UNCHANGED <<idCall, locCall, cacheVars, assetCall, normVars>>

(***************************************************************************)
(* Normalization engine: values, host callbacks and the sync snapshot     *)
(* (normalize.js 1-6, 49-53, 235-251)                                      *)
(*                                                                         *)
(* A JavaScript object is Obj(props), an array Arr(items); a Contentful    *)
(* link is the object {sys: {type: 'Link', linkType, id}}.  A node is an   *)
(* object, and the node store maps a node id to the node created under it. *)
(***************************************************************************)
Num(n) == [kind |-> "number", n |-> n]
Obj(props) == [kind |-> "object", props |-> props]
Arr(items) == [kind |-> "array", items |-> items]
EmptyObject == [k \in {} |-> JsUndefined]
Link(linkType, id) ==
  Obj([sys |-> Obj([type |-> Str("Link"), linkType |-> Str(linkType),
                    id |-> Str(id)])])

\* v.k, undefined for a value without that own property.
Prop(v, k) ==
  IF v.kind = "object" /\ k \in DOMAIN v.props THEN v.props[k]
  ELSE JsUndefined
\* v?.k
OptProp(v, k) == IF v.kind \in {"undefined", "null"} THEN JsUndefined
                 ELSE Prop(v, k)
\* if (v)
Truthy(v) ==
  /\ v.kind \notin {"undefined", "null"}
  /\ ~(v.kind = "string" /\ v.s = "")
  /\ ~(v.kind = "number" /\ v.n = 0)
isArray(v) == v.kind = "array"
isPlainObject(v) == v.kind = "object"
isString(v) == v.kind = "string"

\* seq.flatMap(F) and seq.reduce(Op, init), left to right.
FlatMap(seq, F(_)) ==
  LET f[i \in 0..Len(seq)] == IF i = 0 THEN <<>> ELSE f[i - 1] \o F(seq[i])
  IN  f[Len(seq)]
\* const v = x; F(v): x is evaluated once, whatever use F makes of v.
Const(x, F(_)) == CHOOSE r \in {F(v) : v \in {x}} : TRUE
Reduce(seq, init, Op(_, _)) ==
  LET f[i \in 0..Len(seq)] ==
        IF i = 0 THEN init
        ELSE Const(f[i - 1], LAMBDA acc : Op(acc, seq[i]))
  IN  f[Len(seq)]
Map(seq, F(_)) == [i \in DOMAIN seq |-> F(seq[i])]

\* delete obj[k]
Delete(obj, k) == [x \in DOMAIN obj \ {k} |-> obj[x]]

\* Property names in the order in which the Content Delivery API lists them;
\* Object.keys(obj) and for-in enumerate own keys in insertion order.
KeyOrder ==
  <<"title", "name", "body", "author", "post", "blogpost", "related", "meta", "facts",
    "facts1", "place",
    "doc", "children", "contentfulchildren", "legacy",
    "nodeType", "content", "data", "target", "sys", "type", "linkType", "id",
    "lat", "lon", "tone">>
ObjectKeys(props) == SelectSeq(KeyOrder, LAMBDA k : k \in DOMAIN props)

\* String.prototype.toLowerCase on the letters that occur in names.
LowerOf(c) ==
  CASE c = "A" -> "a" [] c = "B" -> "b" [] c = "P" -> "p" [] c = "S" -> "s"
    [] OTHER -> c
toLowerCase(s) ==
  LET f[i \in 0..Len(s)] ==
        IF i = 0 THEN "" ELSE f[i - 1] \o LowerOf(SubSeq(s, i, i))
  IN  f[Len(s)]
\* _.upperFirst(_.camelCase(`Contentful ${type}`)) for a one-word type.
UpperOf(c) ==
  CASE c = "a" -> "A" [] c = "b" -> "B" [] c = "p" -> "P" [] c = "s" -> "S"
    [] OTHER -> c
typePrefix == "Contentful"
makeTypeName(type) ==
  typePrefix \o UpperOf(SubSeq(type, 1, 1)) \o SubSeq(type, 2, Len(type))

\* JSON.stringify / json-stringify-safe of a value.
RECURSIVE stringify(_)
stringify(v) ==
  CASE v.kind = "string" -> "\"" \o v.s \o "\""
    [] v.kind = "number" -> ToString(v.n)
    [] v.kind = "array" ->
         "[" \o Join(Map(v.items, LAMBDA x : stringify(x)), ",") \o "]"
    [] v.kind = "object" ->
         "{" \o Join(Map(ObjectKeys(v.props),
                         LAMBDA k : "\"" \o k \o "\":"
                                      \o stringify(v.props[k])), ",") \o "}"
    [] OTHER -> "null"

\* Host callbacks.  createNodeId is a deterministic, injective id generator
\* (a name-based UUID of the raw key); createContentDigest hashes a payload.
createNodeId(rawKey) == "<" \o rawKey \o ">"
createContentDigest(payload) == "#" \o payload
\* makeMakeId
mId(currentLocale, defaultLocale, spaceId, id, type) ==
  createNodeId(makeId(spaceId, id, currentLocale, defaultLocale, type))
\* getNode over the node store.
getNode(nodes, id) == IF id \in DOMAIN nodes THEN nodes[id] ELSE JsUndefined
\* createNode: the node is stored under its id.
createNode(nodes, node) ==
  [x \in DOMAIN nodes \cup {node.props["id"].s} |->
     IF x = node.props["id"].s THEN node ELSE nodes[x]]

(***************************************************************************)
(* The sync snapshot: a space with two locales, a post and an author       *)
(* content type, up to three entries and one asset.                        *)
(***************************************************************************)
Space == [sys |-> [id |-> "sp1"]]
DefaultLocale == "en"
Locales == <<[code |-> "en", fallbackCode |-> NULL],
             [code |-> "de", fallbackCode |-> "en"]>>
\* Passed by the plugin's sourceNodes to createNodesForContentType.
restrictedNodeFields == <<"id", "children", "parent", "fields", "internal">>
conflictFieldPrefix == "contentful"

FieldDef(id, type, localized) ==
  [id |-> id, type |-> type, localized |-> localized]
PostType(name) ==
  [sys |-> [id |-> "blogPost", updatedAt |-> "T1"],
   name |-> name, displayField |-> "title", description |-> "posts",
   fields |-> <<FieldDef("title", "Symbol", TRUE),
                FieldDef("body", "Text", TRUE),
                FieldDef("author", "Link", FALSE),
                FieldDef("related", "Array", FALSE),
                FieldDef("meta", "Object", FALSE),
                FieldDef("facts", "Object", FALSE),
                FieldDef("place", "Location", FALSE),
                FieldDef("doc", "RichText", FALSE),
                FieldDef("children", "Symbol", FALSE)>>]
AuthorType ==
  [sys |-> [id |-> "author", updatedAt |-> "T1"],
   name |-> "Author", displayField |-> "name", description |-> "authors",
   fields |-> <<FieldDef("name", "Symbol", FALSE),
                FieldDef("post", "Link", FALSE)>>]
\* The post type is named Post or Sys.
PostNames == {"Post", "Sys"}

EntrySys(id, contentTypeId, updatedAt) ==
  [id |-> id, type |-> "Entry", createdAt |-> "T0", updatedAt |-> updatedAt,
   contentType |-> [sys |-> [id |-> contentTypeId]]]
AssetIds == {"img1"}
\* A link to an entity: an asset link for an asset id, else an entry link.
LinkTo(id) == Link(IF id \in AssetIds THEN "Asset" ELSE "Entry", id)
\* A field bag with one value, written for the default locale.
Bag(v) == [c \in {DefaultLocale} |-> v]
\* An optional field: absent from the entry when the choice is "none" / <<>>.
OptLink(k, target) ==
  IF target = "none" THEN EmptyObject ELSE [x \in {k} |-> Bag(LinkTo(target))]
OptLinks(k, targets) ==
  IF targets = <<>> THEN EmptyObject
  ELSE [x \in {k} |-> Bag(Arr(Map(targets, LAMBDA t : LinkTo(t))))]

\* A rich-text document: an embedded entry (b2), a paragraph with links to
\* the post c3, the asset img1 and again b2, and an embedded asset that is
\* not part of the space any more.
RichDoc ==
  Obj([nodeType |-> Str("document"),
       content |-> Arr(<<
         Obj([nodeType |-> Str("embedded-entry-block"),
              data |-> Obj([target |-> Link("Entry", "b2")])]),
         Obj([nodeType |-> Str("paragraph"),
              content |-> Arr(<<
                Obj([nodeType |-> Str("entry-hyperlink"),
                     data |-> Obj([target |-> Link("Entry", "c3")])]),
                Obj([nodeType |-> Str("asset-hyperlink"),
                     data |-> Obj([target |-> Link("Asset", "img1")])]),
                Obj([nodeType |-> Str("entry-hyperlink"),
                     data |-> Obj([target |-> Link("Entry", "b2")])])>>)]),
         Obj([nodeType |-> Str("embedded-asset-block"),
              data |-> Obj([target |-> Link("Asset", "gone")])])>>)])

\* Post a1 carries a field of every type.
EntryA(author, related) ==
  [sys |-> EntrySys("a1", "blogPost", "T1"),
   fields |->
     Spread(Spread(
       [title |-> [en |-> Str("Hi"), de |-> Str("Hallo")],
        body |-> Bag(Str("hello")),
        meta |-> Bag(Obj([tone |-> Str("dry")])),
        facts |-> Bag(Arr(<<Obj([tone |-> Str("wry")]),
                            Obj([tone |-> Str("shy")])>>)),
        place |-> Bag(Obj([lat |-> Num(1), lon |-> Num(2)])),
        doc |-> Bag(RichDoc),
        children |-> Bag(Str("kids"))],
       OptLink("author", author)), OptLinks("related", related))]
EntryC(author) ==
  [sys |-> EntrySys("c3", "blogPost", "T1"),
   fields |-> Spread([title |-> Bag(Str("Yo"))], OptLink("author", author))]
EntryB(post) ==
  [sys |-> EntrySys("b2", "author", "T1"),
   fields |-> Spread([name |-> Bag(Str("Bo"))], OptLink("post", post))]
Asset1 ==
  [sys |-> [id |-> "img1", type |-> "Asset", createdAt |-> "T0",
            updatedAt |-> "T1"],
   fields |-> [title |-> Bag(Str("Img"))]]

AuthorChoices == {"none", "b2", "zz"}
RelatedChoices == {<<>>, <<"b2">>, <<"zz", "b2">>, <<"zz">>, <<"img1">>}
SecondPostChoices == {"absent", "none", "b2"}
PostChoices == {"none", "a1"}
Snapshots ==
  {[mergedSyncData |->
      [entries |-> <<EntryA(author, related)>>
                     \o (IF second = "absent" THEN <<>>
                                               ELSE <<EntryC(second)>>)
                     \o <<EntryB(post)>>,
       assets |-> <<Asset1>>],
    contentTypeItems |-> <<PostType(name), AuthorType>>,
    useNameForId |-> useName] :
     author \in AuthorChoices, related \in RelatedChoices,
     second \in SecondPostChoices, post \in PostChoices,
     name \in PostNames, useName \in BOOLEAN}

\* Snapshots in which one entry still carries a field, legacy, that its
\* content type does not declare: a text or a link to the author.
WithLegacy(snapshot, id, value) ==
  [snapshot EXCEPT !.mergedSyncData.entries =
     Map(snapshot.mergedSyncData.entries,
         LAMBDA entry :
           IF entry.sys.id = id
             THEN [entry EXCEPT
                     !.fields = Spread(entry.fields, [legacy |-> Bag(value)])]
             ELSE entry)]
DriftSnapshots ==
  {WithLegacy(snapshot, id, value) :
     snapshot \in {x \in Snapshots :
                     /\ x.contentTypeItems[1].name = "Post"
                     /\ "related" \notin
                          DOMAIN x.mergedSyncData.entries[1].fields},
     id \in {"a1", "c3", "b2"},
     value \in {Str("old"), LinkTo("b2")}}

\* Snapshots in which the author type declares a link array with the id
\* blogpost, which is the lower-cased id of the post type, and the author b2
\* holds links to posts in it.
WithPosts(snapshot, posts) ==
  [snapshot EXCEPT
     !.contentTypeItems[2].fields =
        Append(@, FieldDef("blogpost", "Array", FALSE)),
     !.mergedSyncData.entries =
        Map(@, LAMBDA entry :
                 IF entry.sys.id = "b2"
                   THEN [entry EXCEPT
                           !.fields = Spread(entry.fields,
                                             OptLinks("blogpost", posts))]
                   ELSE entry)]
BackSnapshots ==
  {WithPosts(snapshot, posts) :
     snapshot \in {x \in Snapshots :
                     /\ x.contentTypeItems[1].name = "Post"
                     /\ "related" \notin
                          DOMAIN x.mergedSyncData.entries[1].fields},
     posts \in {<<"zz">>, <<"a1">>, <<"zz", "a1">>, <<"c3", "zz", "a1">>}}

\* Snapshots in which the bag of the author's name, a field that is not
\* localized, still holds a value for the locale de: beside the value of the
\* default locale, or alone.
WithName(snapshot, bag) ==
  [snapshot EXCEPT
     !.mergedSyncData.entries =
        Map(@, LAMBDA entry :
                 IF entry.sys.id = "b2"
                   THEN [entry EXCEPT !.fields.name = bag]
                   ELSE entry)]
StaleBags == {[en |-> Str("Bo"), de |-> Str("Bodo")], [de |-> Str("Bodo")]}
StaleSnapshots ==
  {WithName(snapshot, bag) :
     snapshot \in {x \in Snapshots :
                     "related" \notin
                       DOMAIN x.mergedSyncData.entries[1].fields},
     bag \in StaleBags}

\* Snapshots in which the post type declares, beside the list of objects
\* facts, an Object field facts1 that the post a1 fills with one object.
WithTwin(snapshot) ==
  [snapshot EXCEPT
     !.contentTypeItems[1].fields =
        Append(@, FieldDef("facts1", "Object", FALSE)),
     !.mergedSyncData.entries[1].fields =
        Spread(@, [facts1 |-> Bag(Obj([tone |-> Str("sly")]))])]
TwinSnapshots ==
  {WithTwin(snapshot) :
     snapshot \in {x \in Snapshots :
                     "related" \notin
                       DOMAIN x.mergedSyncData.entries[1].fields}}

\* Snapshots in which an entry p9 of the content type page, for which the
\* snapshot has no schema, stands after the first at entries, and in which
\* the author b2 may be missing (no entry of the author type is left).
EntryP ==
  [sys |-> EntrySys("p9", "page", "T1"),
   fields |-> [title |-> Bag(Str("Lost")), author |-> Bag(LinkTo("b2"))]]
WithOrphan(snapshot, at, keepAuthor) ==
  [snapshot EXCEPT !.mergedSyncData.entries =
     SelectSeq(SubSeq(@, 1, at) \o <<EntryP>> \o SubSeq(@, at + 1, Len(@)),
               LAMBDA entry : keepAuthor \/ entry.sys.id # "b2")]
OrphanSnapshots ==
  {WithOrphan(snapshot, at, keepAuthor) :
     snapshot \in {x \in Snapshots :
                     /\ x.contentTypeItems[1].name = "Post"
                     /\ "related" \notin
                          DOMAIN x.mergedSyncData.entries[1].fields},
     at \in 0..2, keepAuthor \in BOOLEAN}

(***************************************************************************)
(* ReferenceIndexer: buildEntryList, buildResolvableSet,                   *)
(* buildForeignReferenceMap (normalize.js 55-177)                          *)
(***************************************************************************)
\* A variant that fills every bucket with every entry.
buildEntryList_unfiltered(contentTypeItems, mergedSyncData) ==
  Map(contentTypeItems, LAMBDA contentType : mergedSyncData.entries)
buildEntryList(contentTypeItems, mergedSyncData) ==
  Map(contentTypeItems,
      LAMBDA contentType :
        SelectSeq(mergedSyncData.entries,
                  LAMBDA entry :
                    entry.sys.contentType.sys.id = contentType.sys.id))

\* `${v}` for a string or undefined.
Template(v) == IF v.kind = "string" THEN v.s ELSE v.kind

buildResolvableSet(entryList, existingNodes, assets) ==
  {Template(Prop(node, "contentful_id")) \o "___"
     \o Template(Prop(Prop(node, "sys"), "type")) : node \in existingNodes}
  \cup UNION {{entryList[i][j].sys.id \o "___" \o entryList[i][j].sys.type :
                 j \in DOMAIN entryList[i]} : i \in DOMAIN entryList}
  \cup {assets[i].sys.id \o "___" \o assets[i].sys.type : i \in DOMAIN assets}

\* v && v.sys && v.sys.type && v.sys.id
IsReference(v) ==
  /\ Truthy(v)
  /\ Truthy(Prop(v, "sys"))
  /\ Truthy(Prop(Prop(v, "sys"), "type"))
  /\ Truthy(Prop(Prop(v, "sys"), "id"))
\* v.sys.linkType || v.sys.type
LinkTypeOf(v) ==
  IF Truthy(Prop(Prop(v, "sys"), "linkType"))
    THEN Prop(Prop(v, "sys"), "linkType").s
    ELSE Prop(Prop(v, "sys"), "type").s
\* `${v.sys.id}___${v.sys.linkType || v.sys.type}`
LinkKey(v) == Prop(Prop(v, "sys"), "id").s \o "___" \o LinkTypeOf(v)

\* The lower-cased label of a content type.
ForeignLabel(contentTypeItem, useNameForId) ==
  IF useNameForId THEN toLowerCase(contentTypeItem.name)
  ELSE toLowerCase(contentTypeItem.sys.id)

ForeignReference(contentTypeItemId, entryItem) ==
  [name |-> contentTypeItemId \o "___NODE", id |-> entryItem.sys.id,
   spaceId |-> Space.sys.id, type |-> entryItem.sys.type]

\* A variant that pushes without the resolvable.has test.
ForeignEdge_unguarded(v, contentTypeItemId, entryItem, resolvable) ==
  <<[key |-> LinkKey(v),
     ref |-> ForeignReference(contentTypeItemId, entryItem)]>>
\* One push onto foreignReferenceMap[key], if the target is resolvable.
ForeignEdge(v, contentTypeItemId, entryItem, resolvable) ==
  IF LinkKey(v) \in resolvable
    THEN <<[key |-> LinkKey(v),
            ref |-> ForeignReference(contentTypeItemId, entryItem)]>>
    ELSE <<>>

\* The pushes one field of one entry causes, in order.
FieldEdges(v, contentTypeItemId, entryItem, resolvable) ==
  IF isArray(v)
    THEN IF Len(v.items) > 0 /\ IsReference(v.items[1])
           THEN FlatMap(v.items,
                        LAMBDA x : ForeignEdge(x, contentTypeItemId,
                                               entryItem, resolvable))
           ELSE <<>>
    ELSE IF IsReference(v)
           THEN ForeignEdge(v, contentTypeItemId, entryItem, resolvable)
           ELSE <<>>

\* The pushes of one entry.  A field bag is an object, so the test
\* if (entryItemFields[entryItemFieldKey]) passes for every key.
EntryEdges(entryItem, contentTypeItemId, resolvable) ==
  FlatMap(ObjectKeys(entryItem.fields),
          LAMBDA k : FieldEdges(GetV(entryItem.fields[k], DefaultLocale),
                                contentTypeItemId, entryItem, resolvable))

\* All pushes in the order the three nested loops make them.
ForeignEdges(contentTypeItems, entryList, resolvable, useNameForId) ==
  FlatMap([i \in DOMAIN contentTypeItems |-> i],
          LAMBDA i :
            FlatMap(entryList[i],
                    LAMBDA entryItem :
                      EntryEdges(entryItem,
                                 ForeignLabel(contentTypeItems[i],
                                              useNameForId),
                                 resolvable)))

GroupEdges(edges) ==
  [key \in {edges[i].key : i \in DOMAIN edges} |->
     Map(SelectSeq(edges, LAMBDA e : e.key = key), LAMBDA e : e.ref)]

buildForeignReferenceMap(contentTypeItems, entryList, resolvable, useNameForId) ==
  GroupEdges(ForeignEdges(contentTypeItems, entryList, resolvable,
                          useNameForId))

(***************************************************************************)
(* EntryNormalizer: createNodesForContentType (normalize.js 235-688)       *)
(*                                                                         *)
(* ctx holds what one iteration of locales.forEach works with: the content *)
(* type, its label, the locale, the two indexes and the node store that    *)
(* getNode reads.                                                          *)
(***************************************************************************)
ContentTypeItemId(contentTypeItem, useNameForId) ==
  IF useNameForId THEN contentTypeItem.name ELSE contentTypeItem.sys.id

Context(contentTypeItem, useNameForId, locale, resolvable, foreignReferenceMap, nodes) ==
  [contentTypeItem |-> contentTypeItem,
   contentTypeItemId |-> ContentTypeItemId(contentTypeItem, useNameForId),
   locale |-> locale, resolvable |-> resolvable,
   foreignReferenceMap |-> foreignReferenceMap, nodes |-> nodes]

\* mId of the current locale.
LocaleId(ctx, spaceId, id, type) ==
  mId(ctx.locale.code, DefaultLocale, spaceId, id, type)
EntryNodeId(ctx, entryItem) ==
  LocaleId(ctx, Space.sys.id, entryItem.sys.id, entryItem.sys.type)

\* existingNode?.internal?.contentDigest
StoredDigest(nodes, id) ==
  OptProp(OptProp(getNode(nodes, id), "internal"), "contentDigest")

\* A variant of the skip check that never finds the entry unchanged.
EntryUnchanged_never(ctx, entryItem) == FALSE

\* The skip check: the stored entry node's digest is the entry's updatedAt.
EntryUnchanged(ctx, entryItem) ==
  StoredDigest(ctx.nodes, EntryNodeId(ctx, entryItem))
    = Str(entryItem.sys.updatedAt)

\* contentTypeItem.fields.find(field => field.id === k)
HasFieldProps(contentTypeItem, k) ==
  \E i \in DOMAIN contentTypeItem.fields : contentTypeItem.fields[i].id = k
FieldProps(contentTypeItem, k) ==
  contentTypeItem.fields[
    CHOOSE i \in DOMAIN contentTypeItem.fields :
      /\ contentTypeItem.fields[i].id = k
      /\ \A j \in 1..(i - 1) : contentTypeItem.fields[j].id # k]
\* A variant that maps only the fields the content type declares.
MappedFields_declared(ctx, entryItem) ==
  [k \in {x \in DOMAIN entryItem.fields :
            HasFieldProps(ctx.contentTypeItem, x)} |-> entryItem.fields[k]]

\* _.mapValues(entryItem.fields, ...) calls back for every own key of the
\* entry's fields, declared by the content type or not.
MappedFields(ctx, entryItem) == entryItem.fields

\* fieldProps.localized of an undefined fieldProps is a TypeError.
LocalizeThrows(ctx, entryItem) ==
  \E k \in DOMAIN MappedFields(ctx, entryItem) :
    ~HasFieldProps(ctx.contentTypeItem, k)

\* A variant that resolves every field through the fallback chain.
LocalizedValue_everyField(ctx, v, k) ==
  getLocalizedField(v, ctx.locale, buildFallbackChain(Locales))
LocalizedValue(ctx, v, k) ==
  IF FieldProps(ctx.contentTypeItem, k).localized
    THEN getLocalizedField(v, ctx.locale, buildFallbackChain(Locales))
    ELSE GetV(v, DefaultLocale)
LocalizeFields(ctx, entryItem) ==
  [k \in DOMAIN MappedFields(ctx, entryItem) |->
     LocalizedValue(ctx, entryItem.fields[k], k)]

\* Restricted field names of the content type, and their renaming.
ConflictFields(contentTypeItem) ==
  SelectSeq(Map(contentTypeItem.fields, LAMBDA f : f.id),
            LAMBDA fieldName : Includes(restrictedNodeFields, fieldName))
PrefixConflict(entryItemFields, conflictField) ==
  Delete(Assign(entryItemFields, conflictFieldPrefix \o conflictField,
                GetV(entryItemFields, conflictField)),
         conflictField)
PrefixConflicts(ctx, entryItemFields) ==
  Reduce(ConflictFields(ctx.contentTypeItem), entryItemFields, PrefixConflict)

\* Forward links.  A node id is a string, a list of node ids an array.
IsResolvable(ctx, v) == LinkKey(v) \in ctx.resolvable
LinkedId(ctx, v) == Str(LocaleId(ctx, Space.sys.id,
                                 Prop(Prop(v, "sys"), "id").s, LinkTypeOf(v)))

\* A variant that maps every element of a link array, resolvable or not.
ResolvableIds_all(ctx, items) ==
  Map(items, LAMBDA v : LinkedId(ctx, v))

ResolvableIds(ctx, items) ==
  Map(SelectSeq(items, LAMBDA v : IsResolvable(ctx, v)),
      LAMBDA v : LinkedId(ctx, v))

\* A variant that stores the list also when it is empty.
ForwardArray_keepsEmpty(ctx, entryItemFields, k, ids) ==
  Delete(Assign(entryItemFields, k \o "___NODE", Arr(ids)), k)
ForwardArray(ctx, entryItemFields, k, ids) ==
  Delete(IF Len(ids) # 0
           THEN Assign(entryItemFields, k \o "___NODE", Arr(ids))
           ELSE entryItemFields,
         k)
ForwardSingle(ctx, entryItemFields, k, v) ==
  Delete(IF IsResolvable(ctx, v)
           THEN Assign(entryItemFields, k \o "___NODE", LinkedId(ctx, v))
           ELSE entryItemFields,
         k)
ForwardLink(ctx, entryItemFields, k, v) ==
  IF ~Truthy(v) THEN entryItemFields
  ELSE IF isArray(v)
    THEN IF Len(v.items) > 0 /\ IsReference(v.items[1])
           THEN ForwardArray(ctx, entryItemFields, k,
                             ResolvableIds(ctx, v.items))
           ELSE entryItemFields
  ELSE IF IsReference(v)
    THEN ForwardSingle(ctx, entryItemFields, k, v)
  ELSE entryItemFields
ForwardLinks(ctx, entryItemFields) ==
  Reduce(ObjectKeys(entryItemFields), entryItemFields,
         LAMBDA acc, k : ForwardLink(ctx, acc, k, GetV(acc, k)))

\* Reverse links.
ForeignId(ctx, foreignReference) ==
  Str(LocaleId(ctx, foreignReference.spaceId, foreignReference.id,
               foreignReference.type))
\* A variant that overwrites whatever the field holds.
ReverseLink_overwrites(ctx, entryItemFields, foreignReference, existingReference) ==
  Assign(entryItemFields, foreignReference.name,
         Arr(<<ForeignId(ctx, foreignReference)>>))

ReverseLink(ctx, entryItemFields, foreignReference, existingReference) ==
  IF Truthy(existingReference)
    THEN IF isArray(existingReference)
           THEN Assign(entryItemFields, foreignReference.name,
                       Arr(Append(existingReference.items,
                                  ForeignId(ctx, foreignReference))))
           ELSE entryItemFields
    ELSE Assign(entryItemFields, foreignReference.name,
                Arr(<<ForeignId(ctx, foreignReference)>>))
ReverseLinks(ctx, entryItem, entryItemFields) ==
  IF entryItem.sys.id \o "___" \o entryItem.sys.type
       \in DOMAIN ctx.foreignReferenceMap
    THEN Reduce(ctx.foreignReferenceMap[
                  entryItem.sys.id \o "___" \o entryItem.sys.type],
                entryItemFields,
                LAMBDA acc, ref :
                  ReverseLink(ctx, acc, ref, GetV(acc, ref.name)))
    ELSE entryItemFields


\* The sys node and the entry node before its fields are merged in.
SysId(ctx, entryItem) == createNodeId(EntryNodeId(ctx, entryItem) \o ".sys")
SysNode(ctx, entryItem) ==
  Obj(Spread(Spread(
    [id |-> Str(SysId(ctx, entryItem)),
     type |-> Str(entryItem.sys.type),
     internal |-> Obj([type |-> Str("ContentfulSys"),
                       contentDigest |-> Str(entryItem.sys.updatedAt)])],
    IF "revision" \in DOMAIN entryItem.sys
      THEN [revision |-> Num(entryItem.sys.revision)] ELSE EmptyObject),
    IF "contentType" \in DOMAIN entryItem.sys
      THEN [contentType___NODE |-> Str(createNodeId(ctx.contentTypeItemId))]
      ELSE EmptyObject))
EntryNodeCore(ctx, entryItem) ==
  [id |-> Str(EntryNodeId(ctx, entryItem)),
   spaceId |-> Str(Space.sys.id),
   contentful_id |-> Str(entryItem.sys.id),
   createdAt |-> Str(entryItem.sys.createdAt),
   updatedAt |-> Str(entryItem.sys.updatedAt),
   parent |-> Str(ctx.contentTypeItemId),
   children |-> Arr(<<>>),
   internal |-> Obj([type |-> Str(makeTypeName(ctx.contentTypeItemId))]),
   sys___NODE |-> Str(SysId(ctx, entryItem))]

\* A variant of prepareTextNode that digests the text instead.
prepareTextNode_contentHash(id, node, key, text) ==
  Obj([id |-> Str(id),
       parent |-> node["id"],
       raw |-> Str(IF isString(text) THEN text.s ELSE ""),
       internal |-> Obj([type |-> Str("ContentfulNodeTypeText"),
                         mediaType |-> Str("text/markdown"),
                         content |-> Str(IF isString(text) THEN text.s ELSE ""),
                         contentDigest |->
                           Str(createContentDigest(
                                 IF isString(text) THEN text.s ELSE ""))])])
prepareTextNode(id, node, key, text) ==
  Obj([id |-> Str(id),
       parent |-> node["id"],
       raw |-> Str(IF isString(text) THEN text.s ELSE ""),
       internal |-> Obj([type |-> Str("ContentfulNodeTypeText"),
                         mediaType |-> Str("text/markdown"),
                         content |-> Str(IF isString(text) THEN text.s ELSE ""),
                         contentDigest |-> node["updatedAt"]])])
prepareLocationNode(id, node, key, data) ==
  Obj([id |-> Str(id),
       parent |-> node["id"],
       lat |-> Prop(data, "lat"),
       lon |-> Prop(data, "lon"),
       internal |-> Obj([type |-> Str("ContentfulNodeTypeLocation"),
                         contentDigest |-> node["updatedAt"]])])
prepareJSONNode(id, node, key, content) ==
  Obj(Spread(
    IF isPlainObject(content) THEN content.props ELSE [content |-> content],
    [id |-> Str(id),
     parent |-> node["id"],
     children |-> Arr(<<>>),
     internal |-> Obj([type |-> Str("ContentfulNodeTypeJSON"),
                       mediaType |-> Str("application/json"),
                       content |-> Str(stringify(content)),
                       contentDigest |-> node["updatedAt"]])]))

\* Type-directed materialization.  acc is what the loop over the field keys
\* has built so far: entryItemFields, the entry node (whose children
\* prepareJSONNode extends) and the child nodes pushed onto childrenNodes.
FieldTypeOf(contentTypeItem, entryItemFieldKey) ==
  contentTypeItem.fields[
    CHOOSE i \in DOMAIN contentTypeItem.fields :
      /\ (IF Includes(restrictedNodeFields, contentTypeItem.fields[i].id)
            THEN conflictFieldPrefix \o contentTypeItem.fields[i].id
            ELSE contentTypeItem.fields[i].id) = entryItemFieldKey
      /\ \A j \in 1..(i - 1) :
           (IF Includes(restrictedNodeFields, contentTypeItem.fields[j].id)
              THEN conflictFieldPrefix \o contentTypeItem.fields[j].id
              ELSE contentTypeItem.fields[j].id) # entryItemFieldKey].type

\* existingNode?.internal?.contentDigest !== entryItem.sys.updatedAt
ChildChanged(ctx, entryItem, id) ==
  StoredDigest(ctx.nodes, id) # Str(entryItem.sys.updatedAt)

\* entryItemFields[`${key}___NODE`] = value; delete entryItemFields[key]
Replaced(entryItemFields, k, value) ==
  Delete(Assign(entryItemFields, k \o "___NODE", value), k)
\* node.children = node.children.concat([id])
WithChild(entryNode, id) ==
  Assign(entryNode, "children",
         Arr(Append(entryNode["children"].items, Str(id))))

TextField(ctx, entryItem, acc, k, id) ==
  [fields |-> Replaced(acc.fields, k, Str(id)),
   entryNode |-> acc.entryNode,
   childrenNodes |->
     IF ChildChanged(ctx, entryItem, id)
       THEN Append(acc.childrenNodes,
                   prepareTextNode(id, acc.entryNode, k, acc.fields[k]))
       ELSE acc.childrenNodes]

\* Locate all Contentful Links within the rich text data.
RECURSIVE traverse(_)
traverse(obj) ==
  FlatMap(IF isArray(obj) THEN obj.items
          ELSE Map(ObjectKeys(obj.props), LAMBDA k : obj.props[k]),
          LAMBDA v :
            IF Truthy(v) /\ Truthy(Prop(v, "sys"))
                 /\ Prop(Prop(v, "sys"), "type") = Str("Link")
              THEN <<v>>
            ELSE IF Truthy(v) /\ v.kind \in {"object", "array"}
              THEN traverse(v)
            ELSE <<>>)
\* A variant that keeps every occurrence.
Unique_keepsAll(seq) == seq
\* [...new Set(ids)]: first occurrences, in insertion order.
Unique(seq) ==
  Reduce(seq, <<>>,
         LAMBDA acc, x : IF Includes(acc, x) THEN acc ELSE Append(acc, x))
RichTextNode(ctx, id, fieldValue) ==
  Obj([id |-> Str(id),
       raw |-> Str(stringify(fieldValue)),
       references___NODE |->
         Arr(Unique(ResolvableIds(ctx, traverse(fieldValue)))),
       internal |-> Obj([type |-> Str("ContentfulNodeTypeRichText"),
                         contentDigest |->
                           Str(createContentDigest(stringify(fieldValue)))])])
RichTextField(ctx, entryItem, acc, k, id) ==
  [fields |-> Replaced(acc.fields, k, Str(id)),
   entryNode |-> acc.entryNode,
   childrenNodes |-> Append(acc.childrenNodes,
                            RichTextNode(ctx, id, acc.fields[k]))]

JSONField(ctx, entryItem, acc, k, id) ==
  IF ChildChanged(ctx, entryItem, id)
    THEN [fields |-> Replaced(acc.fields, k, Str(id)),
          entryNode |-> WithChild(acc.entryNode, id),
          childrenNodes |->
            Append(acc.childrenNodes,
                   prepareJSONNode(id, acc.entryNode, k, acc.fields[k]))]
    ELSE [fields |-> Replaced(acc.fields, k, Str(id)),
          entryNode |-> acc.entryNode,
          childrenNodes |-> acc.childrenNodes]

\* One element of an array of objects; i counts from 0.
JSONElementId(ctx, entryItem, k, i) ==
  createNodeId(EntryNodeId(ctx, entryItem) \o k \o ToString(i) \o "JSONNode")
JSONElement(ctx, entryItem, acc, k, i) ==
  IF ChildChanged(ctx, entryItem, JSONElementId(ctx, entryItem, k, i))
    THEN [fields |-> acc.fields,
          entryNode |->
            WithChild(acc.entryNode, JSONElementId(ctx, entryItem, k, i)),
          childrenNodes |->
            Append(acc.childrenNodes,
                   prepareJSONNode(JSONElementId(ctx, entryItem, k, i),
                                   acc.entryNode, k,
                                   acc.fields[k].items[i + 1]))]
    ELSE acc
JSONArrayField(ctx, entryItem, acc, k) ==
  [fields |->
     Replaced(acc.fields, k,
              Arr([i \in DOMAIN acc.fields[k].items |->
                     Str(JSONElementId(ctx, entryItem, k, i - 1))])),
   entryNode |->
     Reduce([i \in DOMAIN acc.fields[k].items |-> i - 1], acc,
            LAMBDA a, i : JSONElement(ctx, entryItem, a, k, i)).entryNode,
   childrenNodes |->
     Reduce([i \in DOMAIN acc.fields[k].items |-> i - 1], acc,
            LAMBDA a, i : JSONElement(ctx, entryItem, a, k, i)).childrenNodes]

LocationField(ctx, entryItem, acc, k, id) ==
  [fields |-> Replaced(acc.fields, k, Str(id)),
   entryNode |-> acc.entryNode,
   childrenNodes |->
     IF ChildChanged(ctx, entryItem, id)
       THEN Append(acc.childrenNodes,
                   prepareLocationNode(id, acc.entryNode, k, acc.fields[k]))
       ELSE acc.childrenNodes]

MaterializeField(ctx, entryItem, acc, k, fieldType) ==
  IF fieldType = "Text"
    THEN TextField(ctx, entryItem, acc, k,
           createNodeId(EntryNodeId(ctx, entryItem) \o k \o "TextNode"))
  ELSE IF fieldType = "RichText" /\ isPlainObject(acc.fields[k])
    THEN RichTextField(ctx, entryItem, acc, k,
           createNodeId(EntryNodeId(ctx, entryItem) \o "." \o k
                          \o ".richText"))
  ELSE IF fieldType = "Object" /\ isPlainObject(acc.fields[k])
    THEN JSONField(ctx, entryItem, acc, k,
           createNodeId(EntryNodeId(ctx, entryItem) \o k \o "JSONNode"))
  ELSE IF fieldType = "Object" /\ isArray(acc.fields[k])
    THEN JSONArrayField(ctx, entryItem, acc, k)
  ELSE IF fieldType = "Location"
    THEN LocationField(ctx, entryItem, acc, k,
           createNodeId(EntryNodeId(ctx, entryItem) \o k \o "Location"))
  ELSE acc

\* The keys the loop acts on: those without "___" (the derived ___NODE keys
\* are skipped).
PlainKeys(entryItemFields) ==
  SelectSeq(ObjectKeys(entryItemFields), LAMBDA k : ~Contains(k, "___"))
Materialize(ctx, entryItem, entryItemFields) ==
  Reduce(PlainKeys(entryItemFields),
         [fields |-> entryItemFields,
          entryNode |-> EntryNodeCore(ctx, entryItem),
          childrenNodes |-> <<SysNode(ctx, entryItem)>>],
         LAMBDA acc, k :
           MaterializeField(ctx, entryItem, acc, k,
                            FieldTypeOf(ctx.contentTypeItem, k)))

\* pluginConfig.get(`enableTags`)
enableTags == FALSE
TagIds(entryItem) ==
  Arr(Map(entryItem.metadata.tags,
          LAMBDA tag : Str(createNodeId("ContentfulTag__" \o Space.sys.id
                                          \o "__" \o tag.sys.id))))
\* { ...entryItemFields, ...entryNode, node_locale }, then the digest.
AssembleEntryNode(ctx, entryItem, built) ==
  Obj(Spread(
    Assign(Assign(Spread(built.fields, built.entryNode),
                  "node_locale", Str(ctx.locale.code)),
           "internal",
           Obj(Assign(built.entryNode["internal"].props, "contentDigest",
                      Str(entryItem.sys.updatedAt)))),
    IF enableTags
      THEN [metadata |-> Obj([tags___NODE |-> TagIds(entryItem)])]
      ELSE EmptyObject))

\* What entries.map does for one entry it does not skip: the entry node it
\* yields, what it pushes onto childrenNodes, and (for the record of the
\* call) entryItemFields as the forward-link step left it.
Assembled(ctx, entryItem, forward, built) ==
  [skipped |-> FALSE,
   locale |-> ctx.locale.code,
   entryItem |-> entryItem,
   forward |-> forward,
   entryNodes |-> <<AssembleEntryNode(ctx, entryItem, built)>>,
   childrenNodes |-> built.childrenNodes]
Linked(ctx, entryItem, forward) ==
  Const(Materialize(ctx, entryItem, ReverseLinks(ctx, entryItem, forward)),
        LAMBDA built : Assembled(ctx, entryItem, forward, built))
\* For an unchanged entry the callback returns null.
ProcessEntry(ctx, entryItem) ==
  IF EntryUnchanged(ctx, entryItem)
    THEN [skipped |-> TRUE, locale |-> ctx.locale.code,
          entryItem |-> entryItem, forward |-> EmptyObject,
          entryNodes |-> <<>>, childrenNodes |-> <<>>]
    ELSE Const(ForwardLinks(ctx,
                 PrefixConflicts(ctx, LocalizeFields(ctx, entryItem))),
               LAMBDA forward : Linked(ctx, entryItem, forward))

ContentTypeNode(ctx) ==
  Obj([id |-> Str(createNodeId(ctx.contentTypeItemId)),
       name |-> Str(ctx.contentTypeItem.name),
       displayField |-> Str(ctx.contentTypeItem.displayField),
       description |-> Str(ctx.contentTypeItem.description),
       internal |-> Obj([type |-> Str(makeTypeName("ContentType")),
                         contentDigest |->
                           Str(ctx.contentTypeItem.sys.updatedAt)])])

\* The createNode calls of one iteration of locales.forEach, in order.
LocaleNodes(ctx, processed) ==
  <<ContentTypeNode(ctx)>>
    \o FlatMap(processed, LAMBDA entry : entry.entryNodes)
    \o FlatMap(processed, LAMBDA entry : entry.childrenNodes)
\* const { lat, lon } = data: destructuring undefined or null is a
\* TypeError.
LocationThrows(ctx, entryItem) ==
  \E k \in DOMAIN MappedFields(ctx, entryItem) :
    /\ FieldProps(ctx.contentTypeItem, k).type = "Location"
    /\ LocalizedValue(ctx, entryItem.fields[k], k).kind
         \in {"undefined", "null"}
    /\ ChildChanged(ctx, entryItem,
                    createNodeId(EntryNodeId(ctx, entryItem)
                                   \o (IF Includes(restrictedNodeFields, k)
                                         THEN conflictFieldPrefix \o k
                                         ELSE k)
                                   \o "Location"))
\* The iteration throws (before any of its createNode calls) when an entry
\* it does not skip has a field the content type does not declare, or a
\* location field without a value.
LocaleThrows(ctx, entries) ==
  \E i \in DOMAIN entries :
    /\ ~EntryUnchanged(ctx, entries[i])
    /\ \/ LocalizeThrows(ctx, entries[i])
       \/ LocationThrows(ctx, entries[i])

Emitted(acc, processed, created) ==
  [nodes |-> Reduce(created, acc.nodes, createNode),
   emitted |-> acc.emitted \o created,
   log |-> acc.log \o processed,
   threw |-> FALSE]
Processed(acc, ctx, processed) ==
  Const(LocaleNodes(ctx, processed),
        LAMBDA created : Emitted(acc, processed, created))
LocaleStep(acc, ctx, entries) ==
  IF LocaleThrows(ctx, entries)
    THEN [acc EXCEPT !.threw = TRUE]
    ELSE Const(Map(entries, LAMBDA entryItem : ProcessEntry(ctx, entryItem)),
               LAMBDA processed : Processed(acc, ctx, processed))

\* The whole call: locales.forEach over the node store.
createNodesForContentType(contentTypeItem, entries, nodes, resolvable, foreignReferenceMap, useNameForId) ==
  Reduce(Locales,
         [nodes |-> nodes, emitted |-> <<>>, log |-> <<>>, threw |-> FALSE],
         LAMBDA acc, locale :
           IF acc.threw THEN acc
           ELSE LocaleStep(acc,
                           Context(contentTypeItem, useNameForId, locale,
                                   resolvable, foreignReferenceMap,
                                   acc.nodes),
                           entries))

(***************************************************************************)
(* AssetNormalizer: createAssetNodes (normalize.js 690-745, and the later  *)
(* text of the same function at 1246-1301)                                 *)
(***************************************************************************)
\* Lines 711-739: the asset node of one locale.  A field is
\* assetItem.fields.k ? getField(assetItem.fields.k) : otherwise.
AssetNode(assetItem, locale) ==
  LET field(k, otherwise) ==
        IF k \in DOMAIN assetItem.fields
          THEN getLocalizedField(assetItem.fields[k], locale,
                                 buildFallbackChain(Locales))
          ELSE otherwise
  IN Obj([contentful_id |-> Str(assetItem.sys.id),
          spaceId |-> Str(Space.sys.id),
          id |-> Str(mId(locale.code, DefaultLocale, Space.sys.id,
                         assetItem.sys.id, assetItem.sys.type)),
          createdAt |-> Str(assetItem.sys.createdAt),
          updatedAt |-> Str(assetItem.sys.updatedAt),
          parent |-> JsNull,
          children |-> Arr(<<>>),
          file |-> field("file", JsNull),
          title |-> field("title", Str("")),
          description |-> field("description", Str("")),
          node_locale |-> Str(locale.code),
          internal |-> Obj([type |-> Str(makeTypeName("Asset")),
                            contentDigest |-> Str(assetItem.sys.updatedAt)]),
          sys |-> Obj(Spread([type |-> Str(assetItem.sys.type)],
                             IF "revision" \in DOMAIN assetItem.sys
                                  /\ assetItem.sys.revision # 0
                               THEN [revision |->
                                       Num(assetItem.sys.revision)]
                               ELSE EmptyObject))])

\* Lines 690-745: one createNode call per locale, each pushed onto
\* createNodePromises.
createAssetNodes(assetItem) ==
  [emitted |-> Map(Locales, LAMBDA locale : AssetNode(assetItem, locale)),
   createNodePromises |-> Len(Locales),
   threw |-> FALSE]

\* Lines 1246-1301: the first iteration builds the node and then evaluates
\* assetNode.internal.createNodePromises.push(createNode(assetNode)).
\* internal has no createNodePromises, so reading .push of undefined is a
\* TypeError, raised before the argument createNode(assetNode) is evaluated.
createAssetNodes_1246(assetItem) ==
  IF Len(Locales) = 0
    THEN [emitted |-> <<>>, createNodePromises |-> 0, threw |-> FALSE]
    ELSE [emitted |-> <<>>, createNodePromises |-> 0, threw |-> TRUE]

\* The assets the model normalizes: each field bag is absent, complete,
\* partial or empty.
AssetBags(k, values) ==
  {<<>>} \cup { [x \in {k} |-> bag] :
                  bag \in {[en |-> Str(values[1]), de |-> Str(values[2])],
                           [en |-> Str(values[1])],
                           [de |-> Str(values[2])],
                           <<>>} }
AssetItems ==
  { [sys |-> Spread([id |-> "img1", type |-> "Asset", createdAt |-> "T0",
                     updatedAt |-> "T1"], revision),
     fields |-> Spread(Spread(file, title), description)] :
      revision \in Option("revision", {2}),
      file \in AssetBags("file", <<"//images.ctfassets.net/sp1/a.jpg",
                                  "//images.ctfassets.net/sp1/a-de.jpg">>),
      title \in AssetBags("title", <<"Img", "Bild">>),
      description \in AssetBags("description", <<"A picture", "Ein Bild">>) }
AssetCalls ==
  { [op |-> "createAssetNodes", assetItem |-> assetItem, done |-> FALSE,
     lines |-> 0, emitted |-> <<>>, createNodePromises |-> 0,
     threw |-> FALSE] :
      assetItem \in AssetItems }

AssetIdle == assetCall = NoCall

CreateAssetNodes ==
  /\ assetCall # NoCall
  /\ ~assetCall.done
  /\ \E call \in {createAssetNodes(assetCall.assetItem)} :
       assetCall' = [assetCall EXCEPT
                       !.done = TRUE, !.lines = 690,
                       !.emitted = call.emitted,
                       !.createNodePromises = call.createNodePromises,
                       !.threw = call.threw]
  /\ UNCHANGED <<idCall, locCall, cacheVars, imgCall, normVars>>

CreateAssetNodes_1246 ==
  /\ assetCall # NoCall
  /\ ~assetCall.done
  /\ \E call \in {createAssetNodes_1246(assetCall.assetItem)} :
       assetCall' = [assetCall EXCEPT
                       !.done = TRUE, !.lines = 1246,
                       !.emitted = call.emitted,
                       !.createNodePromises = call.createNodePromises,
                       !.threw = call.threw]
  /\ UNCHANGED <<idCall, locCall, cacheVars, imgCall, normVars>>

(***************************************************************************)
(* A normalization pass: the snapshot is fetched, the three indexes are    *)
(* built, and createNodesForContentType is called for each content type    *)
(* in turn, as the plugin's sourceNodes does.                              *)
(***************************************************************************)
MaxPasses == 2

NoIndexes == [built |-> FALSE]
NormIdle ==
  /\ syncData = NoCall
  /\ nodeStore = EmptyObject
  /\ indexes = NoIndexes
  /\ normTrace = <<>>
  /\ normPc = NoCall

\* The root nodes of the store that sourceNodes hands to buildResolvableSet:
\* those that carry sys.type.
ExistingNodes(nodes) ==
  {nodes[id] : id \in {x \in DOMAIN nodes :
                         Truthy(Prop(Prop(nodes[x], "sys"), "type"))}}

\* What changes between two syncs: nothing, or one entry is updated, or
\* (change c3 on a snapshot without that post) the post c3, which links to
\* the author b2, is published and joins the merged snapshot after a1.
Changes == {"none", "a1", "b2", "c3"}
Stamp(pass) == "T" \o ToString(pass)
Updated(snapshot, id, stamp) ==
  IF \E i \in DOMAIN snapshot.mergedSyncData.entries :
       snapshot.mergedSyncData.entries[i].sys.id = id
    THEN [snapshot EXCEPT !.mergedSyncData.entries =
            Map(snapshot.mergedSyncData.entries,
                LAMBDA entry : IF entry.sys.id = id
                                 THEN [entry EXCEPT !.sys.updatedAt = stamp]
                                 ELSE entry)]
  ELSE IF id = "c3"
    THEN [snapshot EXCEPT !.mergedSyncData.entries =
            <<snapshot.mergedSyncData.entries[1]>>
              \o <<[EntryC("b2") EXCEPT !.sys.createdAt = stamp,
                                        !.sys.updatedAt = stamp]>>
              \o Tail(snapshot.mergedSyncData.entries)]
  ELSE snapshot

Sync(change) ==
  /\ normPc # NoCall
  /\ normPc.at = "done"
  /\ normPc.pass < MaxPasses
  /\ syncData' = Updated(syncData, change, Stamp(normPc.pass + 1))
  /\ indexes' = NoIndexes
  /\ normTrace' = <<>>
  /\ normPc' = [pass |-> normPc.pass + 1, at |-> "synced", next |-> 1]
  /\ UNCHANGED <<nodeStore, idCall, locCall, cacheVars, imgCall, assetCall>>

BuiltIndexes(snapshot, entryList, resolvable) ==
  [built |-> TRUE,
   entryList |-> entryList,
   resolvable |-> resolvable,
   foreignReferenceMap |->
     buildForeignReferenceMap(snapshot.contentTypeItems, entryList,
                              resolvable, snapshot.useNameForId)]
BuildIndexes ==
  /\ normPc # NoCall
  /\ normPc.at = "synced"
  /\ \E entryList \in {buildEntryList(syncData.contentTypeItems,
                                       syncData.mergedSyncData)} :
       \E resolvable \in {buildResolvableSet(
                             entryList, ExistingNodes(nodeStore),
                             syncData.mergedSyncData.assets)} :
         indexes' = BuiltIndexes(syncData, entryList, resolvable)
  /\ normPc' = [normPc EXCEPT !.at = "indexed"]
  /\ UNCHANGED <<syncData, nodeStore, normTrace, idCall, locCall, cacheVars,
                 imgCall, assetCall>>

\* The record of one call: its arguments, the store it found, and what it
\* did.
CallRecord(contentTypeItem, entries, nodes, call) ==
  [contentTypeItem |-> contentTypeItem, entries |-> entries,
   nodes |-> nodes, emitted |-> call.emitted, log |-> call.log,
   threw |-> call.threw]
Called(i, call) ==
  /\ nodeStore' = call.nodes
  /\ normTrace' = Append(normTrace,
                         CallRecord(syncData.contentTypeItems[i],
                                    indexes.entryList[i], nodeStore, call))
  /\ normPc' = IF i < Len(syncData.contentTypeItems)
                 THEN [normPc EXCEPT !.next = i + 1]
                 ELSE [normPc EXCEPT !.at = "done"]
CreateNodesForContentType ==
  /\ normPc # NoCall
  /\ normPc.at = "indexed"
  /\ \E call \in {createNodesForContentType(
                     syncData.contentTypeItems[normPc.next],
                     indexes.entryList[normPc.next], nodeStore,
                     indexes.resolvable, indexes.foreignReferenceMap,
                     syncData.useNameForId)} :
       Called(normPc.next, call)
  /\ UNCHANGED <<syncData, indexes, idCall, locCall, cacheVars, imgCall,
                 assetCall>>

(***************************************************************************)
(* Properties of makeId                                                    *)
(***************************************************************************)
\* The sys.type values with and without the Deleted prefix, written out.
StrippedType ==
  [t \in SysTypes |->
     CASE t = "DeletedEntry" -> "Entry"
       [] t = "DeletedAsset" -> "Asset"
       [] OTHER -> t]

IdDone == idCall # NoCall /\ idCall.result # Pending

\* C6: makeId yields spaceId___id___normalizedType when currentLocale is the
\* default locale and exactly that string followed by ___currentLocale when
\* it is not; the type is used with a leading Deleted stripped, so a Deleted
\* type and its plain type yield the same id.
MakeIdShape ==
  IdDone =>
    LET base == idCall.spaceId \o "___" \o idCall.id \o "___"
                  \o StrippedType[idCall.type]
    IN /\ (idCall.currentLocale = idCall.defaultLocale
             => idCall.result = base)
       /\ (idCall.currentLocale # idCall.defaultLocale
             => idCall.result = base \o "___" \o idCall.currentLocale)
       /\ idCall.result =
            makeId(idCall.spaceId, idCall.id, idCall.currentLocale,
                   idCall.defaultLocale, StrippedType[idCall.type])

MakeIdShapeWitness ==
  /\ IdDone
  /\ idCall.type = "DeletedEntry"
  /\ idCall.currentLocale # idCall.defaultLocale
  /\ idCall.result = "sp1___a1___Entry___de"

(***************************************************************************)
(* Properties of getLocalizedField                                         *)
(***************************************************************************)
LocDone == locCall # NoCall /\ locCall.done

\* The n-th locale code on the fallback chain of the call's locale
\* (UNDEFINED once the chain has ended).
RECURSIVE ChainAt(_)
ChainAt(n) ==
  IF n = 0 THEN locCall.locale.code
  ELSE IF ChainAt(n - 1) = UNDEFINED THEN UNDEFINED
  ELSE Get(locCall.localesFallback, ChainAt(n - 1))

\* A chain without a cycle has ended after every code and one null.
ChainBound == Cardinality(LocaleCodes) + 1
ChainAcyclic == ChainAt(ChainBound) = UNDEFINED
ChainHasValue(n) == GetV(locCall.field, ChainAt(n)) # JsUndefined
ChainNoValue == \A n \in 0..ChainBound : ~ChainHasValue(n)

\* C7: on an acyclic fallback chain the call ends without exhausting the
\* stack, and when no locale of the chain has a value it returns null.
LocaleChainTerminates ==
  (LocDone /\ ChainAcyclic) =>
     /\ locCall.result # RangeError
     /\ (ChainNoValue => locCall.result = JsNull)

LocaleChainTerminatesWitness ==
  /\ LocDone
  /\ ChainAcyclic
  /\ ChainNoValue
  /\ ChainAt(1) \in LocaleCodes
  /\ ChainAt(2) = NULL
  /\ DOMAIN locCall.field # {}
  /\ locCall.result = JsNull

\* C8: on a fallback cycle none of whose locales has a value the call
\* returns null.
LocaleCycleReturnsNull ==
  (LocDone /\ ~ChainAcyclic /\ ChainNoValue) => locCall.result = JsNull

\* C9 as stated: when neither the locale nor its direct fallback has a
\* value in the bag, the result is null (stated for acyclic chains).
LocaleDirectFallbackOnly ==
  (/\ LocDone
   /\ ChainAcyclic
   /\ ~ChainHasValue(0)
   /\ ~ChainHasValue(1)) => locCall.result = JsNull

\* C9 amended: the result is the bag's value for the locale when present;
\* otherwise the fallback is followed whenever a fallback code is defined,
\* whether or not the fallback locale has a value, so on an acyclic chain
\* the result is the value of the first locale of the chain that has one,
\* and null when none has.
LocaleFirstValueOnChain ==
  (LocDone /\ ChainAcyclic) =>
     /\ (ChainHasValue(0)
           => locCall.result = locCall.field[locCall.locale.code])
     /\ \A n \in 0..ChainBound :
          (ChainHasValue(n) /\ \A m \in 0..(n - 1) : ~ChainHasValue(m))
             => locCall.result = locCall.field[ChainAt(n)]
     /\ (ChainNoValue => locCall.result = JsNull)

LocaleFirstValueOnChainWitness ==
  /\ LocDone
  /\ ChainAcyclic
  /\ ~ChainHasValue(0)
  /\ ~ChainHasValue(1)
  /\ ChainHasValue(2)
  /\ locCall.result = Str("hello")

(***************************************************************************)
(* Properties of the placeholder cache                                     *)
(***************************************************************************)
FetchesFor(requestUrl) ==
  { i \in DOMAIN fetches : fetches[i].url = requestUrl }

\* C2: whatever the interleaving of callers and completions, the fetch for
\* a request url is dispatched exactly once; the caller that dispatched it
\* holds the promise derived from the registered one, and every later
\* caller that finds the url unresolved receives the registered promise
\* itself.
FetchDispatchedOncePerUrl ==
  \A k \in DOMAIN calls :
    calls[k].requestUrl # "" =>
      /\ Cardinality(FetchesFor(calls[k].requestUrl)) = 1
      /\ calls[k].ret.t = "promise" =>
           LET f == fetches[CHOOSE i \in FetchesFor(calls[k].requestUrl) : TRUE]
               first == \A j \in 1..(k - 1) :
                           calls[j].requestUrl # calls[k].requestUrl
           IN IF first
                THEN /\ promises[calls[k].ret.promise].kind = "then"
                     /\ promises[calls[k].ret.promise].parent = f.promise
                ELSE calls[k].ret.promise = f.promise

FetchDispatchedOncePerUrlWitness ==
  \E j \in DOMAIN calls, k \in DOMAIN calls :
    /\ j < k
    /\ calls[j].requestUrl = calls[k].requestUrl
    /\ calls[j].ret.t = "promise"
    /\ calls[k].ret.t = "promise"
    /\ calls[k].inFlightState = "pending"
    /\ promises[calls[k].ret.promise].kind = "load"
    /\ Cardinality(FetchesFor(calls[k].requestUrl)) = 1

\* C3 as stated: once the rejection of a failed fetch has been delivered,
\* the url is no longer in the in-flight map (so the next call fetches
\* again).
RejectedFetchIsEvicted ==
  \A d \in DOMAIN promises :
    (promises[d].kind = "then" /\ promises[d].state = "rejected")
       => promises[d].url \notin DOMAIN inFlightBase64Cache

\* C3 amended: when the fetch for a url fails, the rejection reaches every
\* caller of that url, the url is not added to the resolved map, and the
\* rejected promise stays registered in the in-flight map: every later call
\* for the url receives that same rejected promise and no new fetch is
\* dispatched.
RejectedFetchStaysInFlight ==
  \A p \in DOMAIN promises :
    (promises[p].kind = "load" /\ promises[p].state = "rejected") =>
      LET requestUrl == promises[p].url IN
      /\ requestUrl \in DOMAIN inFlightBase64Cache
      /\ inFlightBase64Cache[requestUrl] = p
      /\ requestUrl \notin DOMAIN resolvedBase64Cache
      /\ Cardinality(FetchesFor(requestUrl)) = 1
      /\ \A k \in DOMAIN calls :
           calls[k].requestUrl = requestUrl =>
             /\ calls[k].ret.t = "promise"
             /\ \/ calls[k].ret.promise = p
                \/ /\ promises[calls[k].ret.promise].parent = p
                   /\ promises[calls[k].ret.promise].state
                        \in {"pending", "rejected"}

RejectedFetchStaysInFlightWitness ==
  \E j \in DOMAIN calls, k \in DOMAIN calls :
    /\ j < k
    /\ calls[j].requestUrl = calls[k].requestUrl
    /\ calls[j].ret.t = "promise"
    /\ promises[calls[j].ret.promise].state = "rejected"
    /\ calls[k].inFlightState = "rejected"
    /\ calls[k].reactionState = "rejected"
    /\ calls[k].ret.t = "promise"
    /\ promises[calls[k].ret.promise].state = "rejected"

\* A step in which getBase64Image is called for the url.
CalledFor(requestUrl) ==
  /\ Len(calls') = Len(calls) + 1
  /\ calls'[Len(calls')].requestUrl = requestUrl

\* C16: a url of the resolved map stays in it with the same payload in
\* every later state, and a call for such a url returns the stored payload
\* itself (not a promise) and dispatches no fetch.
ResolvedUrlServedSynchronously ==
  [][\A requestUrl \in DOMAIN resolvedBase64Cache :
       /\ requestUrl \in DOMAIN resolvedBase64Cache'
       /\ resolvedBase64Cache'[requestUrl] = resolvedBase64Cache[requestUrl]
       /\ CalledFor(requestUrl) =>
            /\ calls'[Len(calls')].ret
                 = ReturnBody(resolvedBase64Cache[requestUrl])
            /\ fetches' = fetches
            /\ promises' = promises
            /\ inFlightBase64Cache' = inFlightBase64Cache]_vars

\* A first call got a promise; after a second url was resolved too, a later
\* call for the first url got its body synchronously.
ResolvedUrlServedSynchronouslyWitness ==
  \E j \in DOMAIN calls, k \in DOMAIN calls :
    /\ j < k
    /\ calls[j].requestUrl = calls[k].requestUrl
    /\ calls[j].ret.t = "promise"
    /\ calls[k].ret = ReturnBody(Base64Body(calls[k].requestUrl))
    /\ Cardinality(DOMAIN resolvedBase64Cache) = 2
    /\ Len(fetches) = 2

\* The calls for the url, and the fetches for it whose load promise was
\* fulfilled and whose reaction has run.
CallsFor(requestUrl) ==
  {c \in DOMAIN calls : calls[c].requestUrl = requestUrl}
CompletedFetchesFor(requestUrl) ==
  {f \in FetchesFor(requestUrl) :
     /\ promises[fetches[f].promise].state = "fulfilled"
     /\ promises[fetches[f].promise + 1].state = "fulfilled"}

\* C28: in every reachable state, under every interleaving of callers and
\* fetch completions, no url is in the in-flight map and in the resolved
\* map at once, and a url in the resolved map was put there by exactly one
\* successfully completed fetch, whose body it holds.
InFlightAndResolvedDisjoint ==
  /\ DOMAIN inFlightBase64Cache \cap DOMAIN resolvedBase64Cache = {}
  /\ \A requestUrl \in DOMAIN resolvedBase64Cache :
       /\ Cardinality(CompletedFetchesFor(requestUrl)) = 1
       /\ Cardinality(FetchesFor(requestUrl)) = 1
       /\ resolvedBase64Cache[requestUrl] = Base64Body(requestUrl)
\* One url is resolved and has been asked for again since, while the fetch
\* for another url is still registered in flight.
InFlightAndResolvedDisjointWitness ==
  /\ \E requestUrl \in DOMAIN resolvedBase64Cache :
       /\ Cardinality(CallsFor(requestUrl)) >= 2
       /\ \E c \in CallsFor(requestUrl) : calls[c].ret.t = "body"
  /\ DOMAIN inFlightBase64Cache # {}

(***************************************************************************)
(* Properties of the image-derivative engine                               *)
(***************************************************************************)
ImgDone == imgCall # NoCall /\ imgCall.done
ImgCandidates == imgCall.result.candidates

\* C10: every candidate width in the srcSet returned by resolveFixed and
\* resolveFluid is at most the source asset's width and at most 4000, and
\* the srcSet entries are in ascending order of width.
SrcSetWidthsBounded ==
  (ImgDone /\ imgCall.op \in {"resolveFixed", "resolveFluid"}
           /\ ~imgCall.result.isNull) =>
     /\ \A i \in DOMAIN ImgCandidates :
          /\ ImgCandidates[i].width <= imgCall.image.file.details.image.width
          /\ ImgCandidates[i].width <= 4000
     /\ \A i \in DOMAIN ImgCandidates, j \in DOMAIN ImgCandidates :
          i < j => ImgCandidates[i].width <= ImgCandidates[j].width

\* resolveFixed asked for 1500 of a 3000 wide source: 1500, 2250 and 3000
\* are kept, 4500 is dropped.
SrcSetWidthsBoundedWitness ==
  /\ ImgDone
  /\ imgCall.op = "resolveFixed"
  /\ ~imgCall.result.isNull
  /\ imgCall.image.file.details.image.width = 3000
  /\ imgCall.options = [width |-> 1500]
  /\ Len(ImgCandidates) = 3
  /\ ImgCandidates[3].width = 3000

\* The density labels in the order of their multipliers, and the width the
\* i-th multiplier gives for a requested width (Math.round of one and a
\* half times the width rounds a half up).
DensityLabels == <<"1x", "1.5x", "2x", "3x">>
WidthAtDensity(i, requested) ==
  CASE i = 1 -> requested
    [] i = 2 -> (3 * requested + 1) \div 2
    [] i = 3 -> 2 * requested
    [] i = 4 -> 3 * requested
\* C30: the srcSet entries of resolveFixed are the candidates of a prefix
\* of the multipliers 1x, 1.5x, 2x, 3x of the requested width, each under
\* the label of the multiplier that gave its width; no entry has an
\* undefined label.
FixedLabelsMatchMultipliers ==
  (ImgDone /\ imgCall.op = "resolveFixed" /\ ~imgCall.result.isNull) =>
     /\ Len(ImgCandidates) <= Len(DensityLabels)
     /\ \A i \in DOMAIN ImgCandidates :
          /\ ImgCandidates[i].descriptor # UNDEFINED
          /\ ImgCandidates[i].descriptor = DensityLabels[i]
          /\ ImgCandidates[i].width
               = WidthAtDensity(i, imgCall.result.optionsAfter["width"])
\* 1500 of a 3000 wide source: 1x, 1.5x and 2x are kept with their labels,
\* 3x (4500) is dropped.
FixedLabelsMatchMultipliersWitness ==
  /\ ImgDone
  /\ imgCall.op = "resolveFixed"
  /\ ~imgCall.result.isNull
  /\ imgCall.image.file.details.image.width = 3000
  /\ imgCall.options = [width |-> 1500, height |-> 1333]
  /\ [i \in DOMAIN ImgCandidates |->
        <<ImgCandidates[i].width, ImgCandidates[i].descriptor>>]
       = <<<<1500, "1x">>, <<2250, "1.5x">>, <<3000, "2x">>>>

\* The three resolvers that take (image, options).
ImgResolved ==
  /\ ImgDone
  /\ imgCall.op \in {"resolveFixed", "resolveFluid", "resolveResize"}
  /\ ~imgCall.result.isNull
\* The call left a resizingBehavior in the options that the caller had not
\* given.
FitDefaulted ==
  /\ ~HasStr(imgCall.options, "resizingBehavior")
  /\ "resizingBehavior" \in DOMAIN imgCall.result.optionsAfter
\* The caller's two dimensions: maxWidth and maxHeight for resolveFluid.
WidthKey == IF imgCall.op = "resolveFluid" THEN "maxWidth" ELSE "width"
HeightKey == IF imgCall.op = "resolveFluid" THEN "maxHeight" ELSE "height"

\* C11: resolveFixed, resolveFluid and resolveResize default
\* resizingBehavior (to fill) only when the caller requested both a width
\* and a height and gave no resizingBehavior; a request with only a width,
\* only a height or neither gets no resizingBehavior default.
FitDefaultOnlyWhenBothRequested ==
  (ImgResolved /\ FitDefaulted) =>
     /\ imgCall.result.optionsAfter["resizingBehavior"] = "fill"
     /\ Defined(imgCall.options, WidthKey)
     /\ Defined(imgCall.options, HeightKey)

\* C12: resolveFixed, resolveFluid and resolveResize leave the caller's
\* options object as it was passed (no code path assigns to the asset
\* node, so the asset node is the call's image before and after).
ResolversLeaveOptionsUnchanged ==
  ImgResolved => imgCall.result.optionsAfter = imgCall.options

\* C18: generateImageSource called with a format outside the supported
\* set returns undefined and writes one warning, whatever the width and
\* height (the call never throws).
InvalidFormatWarnsAndReturnsUndefined ==
  (ImgDone /\ imgCall.op = "generateImageSource"
           /\ imgCall.toFormat \notin {"jpg", "png", "webp", "gif"}) =>
     /\ imgCall.result = JsUndefined
     /\ Len(imgCall.warnings) = 1

\* A 9000 x 4500 source in avif: both clamps run before the format test.
InvalidFormatWarnsAndReturnsUndefinedWitness ==
  /\ ImgDone
  /\ imgCall.op = "generateImageSource"
  /\ imgCall.toFormat = "avif"
  /\ imgCall.width = 9000
  /\ imgCall.height = 4500
  /\ imgCall.result = JsUndefined
  /\ Len(imgCall.warnings) = 1

\* A generateImageSource call with a supported format has returned.
SourceReturned ==
  /\ ImgDone
  /\ imgCall.op = "generateImageSource"
  /\ imgCall.toFormat \in {"jpg", "png", "webp", "gif"}
\* floor(other * 4000 / exceeding), in exact arithmetic.
ExactScaled(other, exceeding) == (other * 4000) \div exceeding
\* r is the exact floor, or one below it where the quotient is a whole
\* number.
ScaledWithinRounding(r, other, exceeding) ==
  \/ r = ExactScaled(other, exceeding)
  \/ /\ r + 1 = ExactScaled(other, exceeding)
     /\ (other * 4000) % exceeding = 0

\* C27 as stated: for a supported format generateImageSource returns a
\* width and a height of at most 4000; an axis above 4000 is set to 4000
\* (the width first, then the height if it is still above 4000) and the
\* other axis becomes floor(other * 4000 / exceeding).
ClampRescalesByExactFloor ==
  SourceReturned =>
    /\ imgCall.result.width <= 4000
    /\ imgCall.result.height <= 4000
    /\ IF imgCall.width > 4000
         THEN IF ExactScaled(imgCall.height, imgCall.width) > 4000
                THEN /\ imgCall.result.height = 4000
                     /\ imgCall.result.width
                          = ExactScaled(4000, ExactScaled(imgCall.height,
                                                          imgCall.width))
                ELSE /\ imgCall.result.width = 4000
                     /\ imgCall.result.height
                          = ExactScaled(imgCall.height, imgCall.width)
       ELSE IF imgCall.height > 4000
         THEN /\ imgCall.result.height = 4000
              /\ imgCall.result.width
                   = ExactScaled(imgCall.width, imgCall.height)
       ELSE /\ imgCall.result.width = imgCall.width
            /\ imgCall.result.height = imgCall.height

\* C27, amended: both returned dimensions are at most 4000, and the other
\* axis is Math.floor((other / exceeding) * 4000) in double arithmetic:
\* the exact floor of other * 4000 / exceeding, or one below it where that
\* quotient is a whole number.
ClampRescalesWithinRounding ==
  SourceReturned =>
    /\ imgCall.result.width <= 4000
    /\ imgCall.result.height <= 4000
    /\ IF imgCall.width > 4000
         THEN \E h1 \in 0..ExactScaled(imgCall.height, imgCall.width) :
                /\ ScaledWithinRounding(h1, imgCall.height, imgCall.width)
                /\ IF h1 > 4000
                     THEN /\ imgCall.result.height = 4000
                          /\ ScaledWithinRounding(imgCall.result.width,
                                                  4000, h1)
                     ELSE /\ imgCall.result.width = 4000
                          /\ imgCall.result.height = h1
       ELSE IF imgCall.height > 4000
         THEN /\ imgCall.result.height = 4000
              /\ ScaledWithinRounding(imgCall.result.width, imgCall.width,
                                      imgCall.height)
       ELSE /\ imgCall.result.width = imgCall.width
            /\ imgCall.result.height = imgCall.height
\* 4400 x 2211: 2211 * 4000 / 4400 is 2010, and the height returned is 2009.
ClampRescalesWithinRoundingWitness ==
  /\ SourceReturned
  /\ imgCall.width = 4400
  /\ imgCall.height = 2211
  /\ imgCall.result.width = 4000
  /\ imgCall.result.height = 2009

(***************************************************************************)
(* Properties of the normalization pass                                    *)
(***************************************************************************)
NormActive == normPc # NoCall
PassDone == NormActive /\ normPc.at = "done"
NodeId(node) == Prop(node, "id").s
NodeType(node) == Prop(Prop(node, "internal"), "type").s
NodeDigest(node) == Prop(Prop(node, "internal"), "contentDigest")
\* The node id of an entity under a locale.
IdUnder(code, id, type) == mId(code, DefaultLocale, Space.sys.id, id, type)

\* Every entry of the call has, under every locale, a stored entry node
\* whose digest is the entry's updatedAt.
SnapshotUnchanged(call) ==
  \A i \in DOMAIN call.entries : \A l \in DOMAIN Locales :
    StoredDigest(call.nodes,
                 IdUnder(Locales[l].code, call.entries[i].sys.id,
                         call.entries[i].sys.type))
      = Str(call.entries[i].sys.updatedAt)
\* The node is the content-type node of the call, with the digest that the
\* store already held for it.
IsContentTypeNodeOf(node, call) ==
  /\ NodeType(node) = "ContentfulContentType"
  /\ NodeId(node) =
       createNodeId(ContentTypeItemId(call.contentTypeItem,
                                      syncData.useNameForId))
  /\ NodeDigest(node) = Str(call.contentTypeItem.sys.updatedAt)
  /\ Len(call.entries) > 0 =>
       NodeDigest(node) = StoredDigest(call.nodes, NodeId(node))

\* C1: a createNodesForContentType call that finds, for every entry and
\* every locale, a stored entry node whose contentDigest equals the entry's
\* updatedAt emits no entry node and no child node of any kind: all it emits
\* is the content-type node (at least once), with the content type's own
\* updatedAt as digest, which is the digest it was stored with.
UnchangedPassEmitsOnlyContentType ==
  NormActive =>
    \A c \in DOMAIN normTrace :
      SnapshotUnchanged(normTrace[c]) =>
        /\ ~normTrace[c].threw
        /\ Len(normTrace[c].emitted) >= 1
        /\ \A n \in DOMAIN normTrace[c].emitted :
             IsContentTypeNodeOf(normTrace[c].emitted[n], normTrace[c])
\* A second-pass call over two unchanged posts that in the first pass had
\* text, rich text, JSON, location and sys children.
UnchangedPassEmitsOnlyContentTypeWitness ==
  /\ NormActive
  /\ normPc.pass = 2
  /\ \E c \in DOMAIN normTrace :
       /\ SnapshotUnchanged(normTrace[c])
       /\ Len(normTrace[c].entries) = 2
       /\ Len(normTrace[c].emitted) >= 1
       /\ \A t \in {"Text", "RichText", "JSON", "Location"} :
            \E id \in DOMAIN normTrace[c].nodes :
              NodeType(normTrace[c].nodes[id]) = "ContentfulNodeType" \o t
       /\ \E id \in DOMAIN normTrace[c].nodes :
            NodeType(normTrace[c].nodes[id]) = "ContentfulSys"

\* The entities a link can name.
EntityKeys ==
  {<<id, type>> : id \in {"a1", "b2", "c3", "img1", "zz", "gone"},
                  type \in {"Entry", "Asset"}}
\* id is the node id, under the locale, of a member of the resolvable set.
IsResolvableId(id, code) ==
  \E e \in EntityKeys :
    /\ e[1] \o "___" \o e[2] \in indexes.resolvable
    /\ id = Str(IdUnder(code, e[1], e[2]))
\* The ids a node holds under a key.
AllResolvableIds(value, code) ==
  IF isArray(value)
    THEN \A j \in DOMAIN value.items : IsResolvableId(value.items[j], code)
    ELSE IsResolvableId(value, code)
\* The value the forward-link step found under a field key: the localized
\* value of the entry's field.
RawValue(call, entry, k) ==
  LocalizedValue(Context(call.contentTypeItem, syncData.useNameForId,
                         [code |-> entry.locale], indexes.resolvable,
                         indexes.foreignReferenceMap, call.nodes),
                 entry.entryItem.fields[k], k)
IsReferenceArray(v) ==
  isArray(v) /\ Len(v.items) > 0 /\ \A j \in DOMAIN v.items :
                                       IsReference(v.items[j])
ResolvableItems(v) ==
  SelectSeq(v.items, LAMBDA x : LinkKey(x) \in indexes.resolvable)
ForwardOf(entry, k) == GetV(entry.forward, k \o "___NODE")
ForwardStepResolved(call, entry) ==
  /\ \A k \in DOMAIN entry.forward :
       Contains(k, "___NODE") =>
         AllResolvableIds(entry.forward[k], entry.locale)
  /\ \A k \in DOMAIN entry.entryItem.fields :
       /\ IsReference(RawValue(call, entry, k)) =>
            /\ k \notin DOMAIN entry.forward
            /\ IF LinkKey(RawValue(call, entry, k)) \in indexes.resolvable
                 THEN ForwardOf(entry, k) # JsUndefined
                 ELSE k \o "___NODE" \notin DOMAIN entry.forward
       /\ IsReferenceArray(RawValue(call, entry, k)) =>
            /\ k \notin DOMAIN entry.forward
            /\ IF Len(ResolvableItems(RawValue(call, entry, k))) = 0
                 THEN k \o "___NODE" \notin DOMAIN entry.forward
                 ELSE /\ isArray(ForwardOf(entry, k))
                      /\ Len(ForwardOf(entry, k).items)
                           = Len(ResolvableItems(RawValue(call, entry, k)))

\* The forward ___NODE fields of the entry, as its emitted node holds them.
EmittedLinksResolvable(call, entry) ==
  \A n \in DOMAIN call.emitted :
    NodeId(call.emitted[n])
        = IdUnder(entry.locale, entry.entryItem.sys.id,
                  entry.entryItem.sys.type) =>
      \A k \in DOMAIN entry.forward :
        Contains(k, "___NODE") =>
          /\ k \in DOMAIN call.emitted[n].props
          /\ AllResolvableIds(call.emitted[n].props[k], entry.locale)

\* C5: every id in a forward <field>___NODE value of an emitted entry node
\* (single link or link array) is the node id of a member of the resolvable
\* set.  The forward-link step sees to it: it removes the raw link field,
\* leaves no ___NODE field for an unresolvable single link, drops the
\* unresolvable elements of a link array, and leaves no ___NODE field for
\* an array without a resolvable element.
ForwardLinksOnlyResolvable ==
  NormActive =>
    \A c \in DOMAIN normTrace : \A e \in DOMAIN normTrace[c].log :
      ~normTrace[c].log[e].skipped =>
        /\ ForwardStepResolved(normTrace[c], normTrace[c].log[e])
        /\ EmittedLinksResolvable(normTrace[c], normTrace[c].log[e])
\* An entry with a dangling single link and a link array of which one of
\* two elements resolves.
ForwardLinksOnlyResolvableWitness ==
  /\ NormActive
  /\ \E c \in DOMAIN normTrace : \E e \in DOMAIN normTrace[c].log :
       /\ ~normTrace[c].log[e].skipped
       /\ "author" \in DOMAIN normTrace[c].log[e].entryItem.fields
       /\ "author___NODE" \notin DOMAIN normTrace[c].log[e].forward
       /\ "related" \in DOMAIN normTrace[c].log[e].entryItem.fields
       /\ Len(RawValue(normTrace[c], normTrace[c].log[e], "related").items) = 2
       /\ "related___NODE" \in DOMAIN normTrace[c].log[e].forward
       /\ Len(normTrace[c].log[e].forward["related___NODE"].items) = 1

\* The entries the pass knows, by position in entryList (content type,
\* then entry), which is the order in which buildForeignReferenceMap
\* discovers them.
ListedEntries ==
  {<<i, j>> : i \in DOMAIN indexes.entryList, j \in 1..3}
    \cap {p \in (1..2) \X (1..3) : p[2] <= Len(indexes.entryList[p[1]])}
EntryAt(p) == indexes.entryList[p[1]][p[2]]
DiscoveredBefore(p, q) == p[1] < q[1] \/ (p[1] = q[1] /\ p[2] < q[2])
EntityKey(entryItem) == entryItem.sys.id \o "___" \o entryItem.sys.type
\* The entry holds, in a field's default-locale value, a link to the target
\* (alone or as an element of a link array).
HoldsLinkTo(entryItem, target) ==
  \E k \in DOMAIN entryItem.fields :
    \/ /\ IsReference(GetV(entryItem.fields[k], DefaultLocale))
       /\ LinkKey(GetV(entryItem.fields[k], DefaultLocale))
            = EntityKey(target)
    \/ /\ IsReferenceArray(GetV(entryItem.fields[k], DefaultLocale))
       /\ \E j \in DOMAIN GetV(entryItem.fields[k], DefaultLocale).items :
            LinkKey(GetV(entryItem.fields[k], DefaultLocale).items[j])
              = EntityKey(target)
\* The name of the reverse field that entries of p's content type cause.
ReverseName(p) ==
  toLowerCase(ContentTypeItemId(syncData.contentTypeItems[p[1]],
                                syncData.useNameForId)) \o "___NODE"
\* The nodes emitted in this pass under an id, and the record of an entry.
EmittedUnder(id) ==
  {<<c, n>> \in (DOMAIN normTrace) \X (1..40) :
     /\ n <= Len(normTrace[c].emitted)
     /\ NodeId(normTrace[c].emitted[n]) = id}
EmittedNode(cn) == normTrace[cn[1]].emitted[cn[2]]
LogOf(entryItem, code) ==
  {<<c, e>> \in (DOMAIN normTrace) \X (1..3) :
     /\ e <= Len(normTrace[c].log)
     /\ normTrace[c].log[e].entryItem.sys.id = entryItem.sys.id
     /\ normTrace[c].log[e].locale = code}
LogEntry(ce) == normTrace[ce[1]].log[ce[2]]

\* value is a list in which id occurs.
ListsId(value, id) ==
  isArray(value) /\ \E i \in DOMAIN value.items : value.items[i] = Str(id)
\* value is a list in which first occurs somewhere before second.
ListsInOrder(value, first, second) ==
  /\ isArray(value)
  /\ \E i, j \in DOMAIN value.items :
       i < j /\ value.items[i] = Str(first) /\ value.items[j] = Str(second)
\* b's node under the locale lists a (and, after a, every later entry of
\* a's type that links to b) under a's reverse name.
ReverseListed(node, a, b, code) ==
  /\ ListsId(GetV(node.props, ReverseName(a)),
             IdUnder(code, EntryAt(a).sys.id, EntryAt(a).sys.type))
  /\ \A a2 \in ListedEntries :
       (/\ a2[1] = a[1]
        /\ DiscoveredBefore(a, a2)
        /\ HoldsLinkTo(EntryAt(a2), EntryAt(b))) =>
         ListsInOrder(GetV(node.props, ReverseName(a)),
                      IdUnder(code, EntryAt(a).sys.id, EntryAt(a).sys.type),
                      IdUnder(code, EntryAt(a2).sys.id, EntryAt(a2).sys.type))
FirstPassDone == PassDone /\ normPc.pass = 1

OwnForward(b, code, name) ==
  GetV(LogEntry(CHOOSE ce \in LogOf(EntryAt(b), code) : TRUE).forward, name)
CarriesUndeclaredField(entryItem, contentTypeItem) ==
  \E k \in DOMAIN entryItem.fields :
    \A f \in DOMAIN contentTypeItem.fields : contentTypeItem.fields[f].id # k

StoredFor(entryItem, code) ==
  getNode(nodeStore, IdUnder(code, entryItem.sys.id, entryItem.sys.type))
\* The reverse name is free for a list on b's node: it is not sys___NODE,
\* and b's node does not hold a single node id of its own under it.
ReverseNameFree(a, b, code) ==
  /\ ReverseName(a) # "sys___NODE"
  /\ ~isString(Prop(StoredFor(EntryAt(b), code), ReverseName(a)))

\* C19: after every pass over the persistent store, for entries A and B of
\* the latest snapshot with a default-locale link from A to B, the node
\* stored for B (under each locale) lists A's node id under A's reverse
\* name, also when A was published or changed in a later pass than the one
\* that created B's node and B's updatedAt did not change.  (The two cases
\* in which the name is not free for a list are left out.)
BackReferenceSurvivesPasses ==
  PassDone =>
    \A a, b \in ListedEntries :
      HoldsLinkTo(EntryAt(a), EntryAt(b)) =>
        \A l \in DOMAIN Locales :
          ReverseNameFree(a, b, Locales[l].code) =>
            ListsId(Prop(StoredFor(EntryAt(b), Locales[l].code),
                         ReverseName(a)),
                    IdUnder(Locales[l].code, EntryAt(a).sys.id,
                            EntryAt(a).sys.type))

\* The child kinds: text, rich text, JSON (an object or one element of an
\* array of objects) and location nodes.
ChildTypes ==
  {"ContentfulNodeTypeText", "ContentfulNodeTypeRichText",
   "ContentfulNodeTypeJSON", "ContentfulNodeTypeLocation"}
ChildFieldTypes == {"Text", "RichText", "Object", "Location"}
IsChild(node) == node.kind = "object" /\ NodeType(node) \in ChildTypes
\* The node ids a ___NODE field holds: one id or a list of ids.
ReferenceIds(v) ==
  IF isArray(v) THEN {v.items[i].s : i \in DOMAIN v.items}
  ELSE IF isString(v) THEN {v.s}
  ELSE {}
\* No child the rebuilt entry pushed was already stored, at the start of the
\* call, under the same id with the same digest.
StoredChildrenNotEmitted(call, entry) ==
  \A j \in DOMAIN entry.childrenNodes :
    IsChild(entry.childrenNodes[j]) =>
      StoredDigest(call.nodes, NodeId(entry.childrenNodes[j]))
        # NodeDigest(entry.childrenNodes[j])
\* Every field of a child-making type is replaced on the rebuilt entry node
\* by a ___NODE field with the ids of child nodes, stored or just pushed.
ChildReferencesSet(call, entry) ==
  \A k \in DOMAIN entry.entryItem.fields :
    (/\ HasFieldProps(call.contentTypeItem, k)
     /\ FieldProps(call.contentTypeItem, k).type \in ChildFieldTypes) =>
      /\ ReferenceIds(Prop(entry.entryNodes[1], k \o "___NODE")) # {}
      /\ \A id \in ReferenceIds(Prop(entry.entryNodes[1], k \o "___NODE")) :
           \/ IsChild(getNode(call.nodes, id))
           \/ \E j \in DOMAIN entry.childrenNodes :
                /\ IsChild(entry.childrenNodes[j])
                /\ NodeId(entry.childrenNodes[j]) = id

\* C20: for each of the five child kinds (text, rich text, object, element
\* of an array of objects, location), when an entry is rebuilt and the store
\* already holds the child node under its id with the matching digest, the
\* child is not emitted again, while the rebuilt entry node still carries
\* the <field>___NODE reference to the child id.
ExistingChildNotEmittedAgain ==
  NormActive =>
    \A c \in DOMAIN normTrace : \A i \in DOMAIN normTrace[c].log :
      ~normTrace[c].log[i].skipped =>
        /\ StoredChildrenNotEmitted(normTrace[c], normTrace[c].log[i])
        /\ ChildReferencesSet(normTrace[c], normTrace[c].log[i])

\* The digest the child node must carry, by kind, for a parent entry.
ChildDigestRight(child, entryItem) ==
  IF NodeType(child) = "ContentfulNodeTypeRichText"
    THEN /\ NodeDigest(child) = Str(createContentDigest(Prop(child, "raw").s))
         /\ NodeDigest(child) # Str(entryItem.sys.updatedAt)
    ELSE NodeDigest(child) = Str(entryItem.sys.updatedAt)

\* C21: every text, JSON and location child node pushed for an entry has
\* the entry's sys.updatedAt as internal.contentDigest, and every rich-text
\* child node has createContentDigest of its serialized raw payload (which
\* is not the entry's updatedAt).
ChildDigests ==
  NormActive =>
    \A c \in DOMAIN normTrace : \A i \in DOMAIN normTrace[c].log :
      \A j \in DOMAIN normTrace[c].log[i].childrenNodes :
        IsChild(normTrace[c].log[i].childrenNodes[j]) =>
          ChildDigestRight(normTrace[c].log[i].childrenNodes[j],
                           normTrace[c].log[i].entryItem)
\* A second-pass call that rebuilt the updated post a1 and pushed children
\* of all four node types for it.
ChildDigestsWitness ==
  /\ NormActive
  /\ normPc.pass = 2
  /\ \E c \in DOMAIN normTrace : \E i \in DOMAIN normTrace[c].log :
       /\ normTrace[c].log[i].entryItem.sys.updatedAt = "T2"
       /\ {NodeType(normTrace[c].log[i].childrenNodes[j]) :
             j \in DOMAIN normTrace[c].log[i].childrenNodes}
            \cap ChildTypes = ChildTypes
       /\ \A j \in DOMAIN normTrace[c].log[i].childrenNodes :
            /\ normTrace[c].log[i].childrenNodes[j]
                 \in {normTrace[c].emitted[n] : n \in DOMAIN normTrace[c].emitted}
            /\ NodeId(normTrace[c].log[i].childrenNodes[j])
                 \in DOMAIN nodeStore

\* The target keys of the links an entry holds in the default-locale values
\* of its fields, single or as elements of a link array.
LinkTargets(entryItem) ==
  {LinkKey(GetV(entryItem.fields[k], DefaultLocale)) :
     k \in {x \in DOMAIN entryItem.fields :
              IsReference(GetV(entryItem.fields[x], DefaultLocale))}}
  \cup UNION {{LinkKey(GetV(entryItem.fields[k], DefaultLocale).items[j]) :
                 j \in DOMAIN GetV(entryItem.fields[k], DefaultLocale).items} :
              k \in {x \in DOMAIN entryItem.fields :
                       IsReferenceArray(GetV(entryItem.fields[x],
                                             DefaultLocale))}}
\* The map holds, under the key, a reverse edge owned by the entry at p.
HasEdgeFrom(key, p) ==
  /\ key \in DOMAIN indexes.foreignReferenceMap
  /\ \E n \in DOMAIN indexes.foreignReferenceMap[key] :
       /\ indexes.foreignReferenceMap[key][n].id = EntryAt(p).sys.id
       /\ indexes.foreignReferenceMap[key][n].name = ReverseName(p)

\* C22: every key of the map buildForeignReferenceMap returns is a member of
\* the resolvable set it was given; a link, single or array element, whose
\* target key is not resolvable causes no reverse edge, while every
\* resolvable link of the same array and of the other fields of the entry
\* has its edge.
ForeignKeysResolvable ==
  indexes.built =>
    /\ DOMAIN indexes.foreignReferenceMap \subseteq indexes.resolvable
    /\ \A p \in ListedEntries : \A key \in LinkTargets(EntryAt(p)) :
         IF key \in indexes.resolvable
           THEN HasEdgeFrom(key, p)
           ELSE key \notin DOMAIN indexes.foreignReferenceMap
\* The post a1 links to the missing entry zz alone and as first element of an
\* array whose second element is the author b2, who has the edge from a1.
ForeignKeysResolvableWitness ==
  /\ indexes.built
  /\ "zz___Entry" \notin indexes.resolvable
  /\ \E p \in ListedEntries :
       /\ EntryAt(p).sys.id = "a1"
       /\ GetV(EntryAt(p).fields, "author") = Bag(LinkTo("zz"))
       /\ GetV(EntryAt(p).fields, "related")
            = Bag(Arr(<<LinkTo("zz"), LinkTo("b2")>>))
       /\ HasEdgeFrom("b2___Entry", p)
       /\ "zz___Entry" \notin DOMAIN indexes.foreignReferenceMap

\* The positions of the snapshot's entries whose content-type id is that of
\* the i-th schema.
EntriesOfType(i) ==
  {n \in DOMAIN syncData.mergedSyncData.entries :
     syncData.mergedSyncData.entries[n].sys.contentType.sys.id
       = syncData.contentTypeItems[i].sys.id}
\* The bucket holds exactly the entries at the positions, in snapshot order.
BucketHolds(bucket, positions) ==
  /\ Len(bucket) = Cardinality(positions)
  /\ \A j \in DOMAIN bucket :
       \E n \in positions :
         /\ bucket[j] = syncData.mergedSyncData.entries[n]
         /\ Cardinality({m \in positions : m < n}) = j - 1

\* C23: buildEntryList returns one bucket per content-type schema, in the
\* order of contentTypeItems; bucket i holds exactly the entries whose
\* sys.contentType.sys.id is contentTypeItems[i].sys.id, in snapshot order
\* (the empty list when there are none); an entry whose content-type id
\* matches no schema is in no bucket.
OneBucketPerContentType ==
  indexes.built =>
    /\ Len(indexes.entryList) = Len(syncData.contentTypeItems)
    /\ \A i \in DOMAIN indexes.entryList :
         BucketHolds(indexes.entryList[i], EntriesOfType(i))
    /\ \A n \in DOMAIN syncData.mergedSyncData.entries :
         (\A i \in DOMAIN syncData.contentTypeItems :
            syncData.mergedSyncData.entries[n].sys.contentType.sys.id
              # syncData.contentTypeItems[i].sys.id)
         => \A i \in DOMAIN indexes.entryList :
              \A j \in DOMAIN indexes.entryList[i] :
                indexes.entryList[i][j] # syncData.mergedSyncData.entries[n]
\* The page p9 stands between the posts a1 and c3, and there is no author:
\* the post bucket is a1, c3 and the author bucket is empty.
OneBucketPerContentTypeWitness ==
  /\ indexes.built
  /\ Len(syncData.mergedSyncData.entries) = 3
  /\ syncData.mergedSyncData.entries[2] = EntryP
  /\ Len(indexes.entryList) = 2
  /\ Len(indexes.entryList[1]) = 2
  /\ indexes.entryList[1][2].sys.id = "c3"
  /\ indexes.entryList[2] = <<>>

\* The node ids, under the entry's locale, of the resolvable elements of the
\* link array the entry holds under k, in array order.
ForwardIds(call, entry, k) ==
  Map(ResolvableItems(RawValue(call, entry, k)),
      LAMBDA v : Str(IdUnder(entry.locale, Prop(Prop(v, "sys"), "id").s,
                             LinkTypeOf(v))))
\* The node ids of the entries that link to the entry and whose reverse
\* field has the given name, in discovery order.
ReverseIds(entry, name) ==
  IF EntityKey(entry.entryItem) \in DOMAIN indexes.foreignReferenceMap
    THEN Map(SelectSeq(indexes.foreignReferenceMap[EntityKey(entry.entryItem)],
                       LAMBDA ref : ref.name = name),
             LAMBDA ref : Str(IdUnder(entry.locale, ref.id, ref.type)))
    ELSE <<>>
ListOrAbsent(ids) == IF ids = <<>> THEN JsUndefined ELSE Arr(ids)
\* The keys under which the entry holds an array of references.
LinkArrayKeys(call, entry) ==
  {k \in DOMAIN entry.entryItem.fields :
     IsReferenceArray(RawValue(call, entry, k))}

\* C24 as stated: for a field whose value is an array of references, the
\* emitted entry node has neither <field>___NODE nor the raw field when no
\* element is resolvable, and else holds under <field>___NODE the list of
\* the node ids of the resolvable elements, in array order, without the raw
\* field.
LinkArrayOnlyForwardIds ==
  NormActive =>
    \A c \in DOMAIN normTrace : \A e \in DOMAIN normTrace[c].log :
      ~normTrace[c].log[e].skipped =>
        \A k \in LinkArrayKeys(normTrace[c], normTrace[c].log[e]) :
          /\ k \notin DOMAIN normTrace[c].log[e].entryNodes[1].props
          /\ Prop(normTrace[c].log[e].entryNodes[1], k \o "___NODE")
               = ListOrAbsent(ForwardIds(normTrace[c], normTrace[c].log[e], k))

\* C24, amended: the raw field is removed either way, and the forward-link
\* step leaves under <field>___NODE the list of the node ids of the
\* resolvable elements in array order, or nothing when none is resolvable;
\* the emitted entry node holds that list followed by the node ids of the
\* entries whose reverse reference has the same name, and no such field
\* only when both are empty.
LinkArrayForwardThenReverseIds ==
  NormActive =>
    \A c \in DOMAIN normTrace : \A e \in DOMAIN normTrace[c].log :
      ~normTrace[c].log[e].skipped =>
        \A k \in LinkArrayKeys(normTrace[c], normTrace[c].log[e]) :
          /\ k \notin DOMAIN normTrace[c].log[e].entryNodes[1].props
          /\ k \notin DOMAIN normTrace[c].log[e].forward
          /\ ForwardOf(normTrace[c].log[e], k)
               = ListOrAbsent(ForwardIds(normTrace[c], normTrace[c].log[e], k))
          /\ Prop(normTrace[c].log[e].entryNodes[1], k \o "___NODE")
               = ListOrAbsent(
                   ForwardIds(normTrace[c], normTrace[c].log[e], k)
                     \o ReverseIds(normTrace[c].log[e], k \o "___NODE"))
\* The author holds links to a missing entry and to the post a1 under
\* blogpost, and the post c3 links to the author: the author's node lists
\* a1 and then c3 under blogpost___NODE.
LinkArrayForwardThenReverseIdsWitness ==
  /\ NormActive
  /\ \E c \in DOMAIN normTrace : \E e \in DOMAIN normTrace[c].log :
       /\ ~normTrace[c].log[e].skipped
       /\ normTrace[c].log[e].locale = "de"
       /\ "blogpost" \in LinkArrayKeys(normTrace[c], normTrace[c].log[e])
       /\ Len(RawValue(normTrace[c], normTrace[c].log[e], "blogpost").items) = 2
       /\ Len(ForwardIds(normTrace[c], normTrace[c].log[e], "blogpost")) = 1
       /\ Len(ReverseIds(normTrace[c].log[e], "blogpost___NODE")) = 1
       /\ Prop(normTrace[c].log[e].entryNodes[1], "blogpost___NODE")
            = Arr(<<Str(IdUnder("de", "a1", "Entry")),
                    Str(IdUnder("de", "c3", "Entry"))>>)
       /\ normTrace[c].log[e].entryNodes[1]
            \in {normTrace[c].emitted[n] : n \in DOMAIN normTrace[c].emitted}

\* Every link object (sys.type is Link) inside a value, at any depth.
RECURSIVE LinksIn(_)
LinksIn(v) ==
  IF v.kind = "object" /\ Prop(Prop(v, "sys"), "type") = Str("Link")
    THEN {v}
  ELSE IF v.kind = "object"
    THEN UNION {LinksIn(v.props[k]) : k \in DOMAIN v.props}
  ELSE IF v.kind = "array"
    THEN UNION {LinksIn(v.items[i]) : i \in DOMAIN v.items}
  ELSE {}
\* The targets of the links of the document RichDoc, each once, in the order
\* in which a reader of the document comes across them first.
RichDocTargets ==
  <<[id |-> "b2", type |-> "Entry"], [id |-> "c3", type |-> "Entry"],
    [id |-> "img1", type |-> "Asset"], [id |-> "gone", type |-> "Asset"]>>
\* The rich-text children pushed for a rebuilt entry.
RichTextChildren(entry) ==
  {j \in DOMAIN entry.childrenNodes :
     NodeType(entry.childrenNodes[j]) = "ContentfulNodeTypeRichText"}
References(child) == Prop(child, "references___NODE").items
RichReferencesRight(entry, child, fieldValue) ==
  /\ \A v \in LinksIn(fieldValue) :
       LinkKey(v) \in indexes.resolvable <=>
         \E i \in DOMAIN References(child) :
           References(child)[i]
             = Str(IdUnder(entry.locale, Prop(Prop(v, "sys"), "id").s,
                           LinkTypeOf(v)))
  /\ \A i \in DOMAIN References(child) :
       \E v \in LinksIn(fieldValue) :
         /\ LinkKey(v) \in indexes.resolvable
         /\ References(child)[i]
              = Str(IdUnder(entry.locale, Prop(Prop(v, "sys"), "id").s,
                            LinkTypeOf(v)))
  /\ \A i, j \in DOMAIN References(child) :
       i # j => References(child)[i] # References(child)[j]
  /\ fieldValue = RichDoc =>
       References(child)
         = Map(SelectSeq(RichDocTargets,
                         LAMBDA t : t.id \o "___" \o t.type
                                      \in indexes.resolvable),
               LAMBDA t : Str(IdUnder(entry.locale, t.id, t.type)))

\* C25: the references___NODE list of a rich-text child node holds the node
\* id of every link object found at any depth of the field value whose
\* target is in the resolvable set, no id of an unresolvable target, each id
\* once, in the order of first discovery.
RichTextReferences ==
  NormActive =>
    \A c \in DOMAIN normTrace : \A e \in DOMAIN normTrace[c].log :
      \A j \in RichTextChildren(normTrace[c].log[e]) :
        RichReferencesRight(
          normTrace[c].log[e], normTrace[c].log[e].childrenNodes[j],
          RawValue(normTrace[c], normTrace[c].log[e], "doc"))
\* The post c3 is part of the snapshot: the child of a1 under the locale de
\* lists b2, c3 and img1, b2 once, and not the missing asset.
RichTextReferencesWitness ==
  /\ NormActive
  /\ indexes.built
  /\ "c3___Entry" \in indexes.resolvable
  /\ \E c \in DOMAIN normTrace : \E e \in DOMAIN normTrace[c].log :
       /\ normTrace[c].log[e].locale = "de"
       /\ \E j \in RichTextChildren(normTrace[c].log[e]) :
            References(normTrace[c].log[e].childrenNodes[j])
              = <<Str(IdUnder("de", "b2", "Entry")),
                  Str(IdUnder("de", "c3", "Entry")),
                  Str(IdUnder("de", "img1", "Asset"))>>

\* C29: the child nodes pushed for one entry node have pairwise distinct
\* node ids: with the injective createNodeId, distinct combinations of field
\* key, child kind and array index give distinct raw keys.
ChildIdsDistinct ==
  NormActive =>
    \A c \in DOMAIN normTrace : \A e \in DOMAIN normTrace[c].log :
      \A i, j \in DOMAIN normTrace[c].log[e].childrenNodes :
        i # j => NodeId(normTrace[c].log[e].childrenNodes[i])
                   # NodeId(normTrace[c].log[e].childrenNodes[j])
\* The positions of the call's emitted list that hold a content-type node.
ContentTypeEmissions(call) ==
  {n \in DOMAIN call.emitted :
     NodeType(call.emitted[n]) = "ContentfulContentType"}

\* C15: one call of createNodesForContentType emits exactly one
\* content-type node, whatever the number of entries and of locales and
\* also when every entry is skipped; its contentDigest is the schema's
\* sys.updatedAt and it carries name, displayField and description.
OneContentTypeNodePerCall ==
  NormActive =>
    \A c \in DOMAIN normTrace :
      /\ Cardinality(ContentTypeEmissions(normTrace[c])) = 1
      /\ \A n \in ContentTypeEmissions(normTrace[c]) :
           /\ NodeDigest(normTrace[c].emitted[n])
                = Str(normTrace[c].contentTypeItem.sys.updatedAt)
           /\ Prop(normTrace[c].emitted[n], "name")
                = Str(normTrace[c].contentTypeItem.name)
           /\ Prop(normTrace[c].emitted[n], "displayField")
                = Str(normTrace[c].contentTypeItem.displayField)
           /\ Prop(normTrace[c].emitted[n], "description")
                = Str(normTrace[c].contentTypeItem.description)

(***************************************************************************)
(* Properties of the asset normalizer                                      *)
(***************************************************************************)
AssetDone == assetCall # NoCall /\ assetCall.done

\* C13: createAssetNodes completes without throwing and emits exactly one
\* asset node per locale (one createNode call and one returned completion
\* per element of locales, in the order of locales), each with
\* internal.contentDigest equal to the asset's sys.updatedAt.
OneAssetNodePerLocale ==
  AssetDone =>
    /\ ~assetCall.threw
    /\ Len(assetCall.emitted) = Len(Locales)
    /\ assetCall.createNodePromises = Len(Locales)
    /\ \A i \in DOMAIN assetCall.emitted :
         /\ Prop(assetCall.emitted[i], "node_locale") = Str(Locales[i].code)
         /\ NodeType(assetCall.emitted[i]) = "ContentfulAsset"
         /\ NodeDigest(assetCall.emitted[i])
              = Str(assetCall.assetItem.sys.updatedAt)

\* The value a field bag resolves to for a locale of Locales (en has no
\* fallback, de falls back to en); undefined when none resolves.
BagValue(bag, code) ==
  IF code \in DOMAIN bag THEN bag[code]
  ELSE IF code = "de" /\ "en" \in DOMAIN bag THEN bag["en"]
  ELSE JsUndefined
\* The localized value when one resolves, the empty string otherwise.
ValueOrEmpty(fields, k, code) ==
  IF k \in DOMAIN fields /\ BagValue(fields[k], code).kind = "string"
    THEN BagValue(fields[k], code)
    ELSE Str("")

\* The key under which the entry node carries a field of the entry.
NodeKeyOf(k) ==
  IF Includes(restrictedNodeFields, k) THEN conflictFieldPrefix \o k ELSE k
\* The declared fields of type Symbol that an entry carries.
SymbolKeys(call, entry) ==
  {k \in DOMAIN entry.entryItem.fields :
     /\ HasFieldProps(call.contentTypeItem, k)
     /\ FieldProps(call.contentTypeItem, k).type = "Symbol"}
\* C26: a field that the content type does not mark as localized has, on
\* the node of every locale, the value its bag holds under the default
\* locale code (undefined when it holds none), whatever else the bag holds;
\* a localized field has the value the fallback chain resolves.
NonLocalizedUsesDefaultLocale ==
  NormActive =>
    \A c \in DOMAIN normTrace : \A e \in DOMAIN normTrace[c].log :
      normTrace[c].log[e].entryNodes # <<>> =>
        \A k \in SymbolKeys(normTrace[c], normTrace[c].log[e]) :
          Prop(normTrace[c].log[e].entryNodes[1], NodeKeyOf(k))
            = IF FieldProps(normTrace[c].contentTypeItem, k).localized
                THEN BagValue(normTrace[c].log[e].entryItem.fields[k],
                              normTrace[c].log[e].locale)
                ELSE IF DefaultLocale
                          \in DOMAIN normTrace[c].log[e].entryItem.fields[k]
                  THEN normTrace[c].log[e].entryItem.fields[k][DefaultLocale]
                  ELSE JsUndefined
\* The author's node under de carries the name of the default locale
\* although the bag holds a name for de, and the post's node under de
\* carries the German title.
NonLocalizedUsesDefaultLocaleWitness ==
  /\ NormActive
  /\ \E c \in DOMAIN normTrace : \E e \in DOMAIN normTrace[c].log :
       /\ normTrace[c].log[e].locale = "de"
       /\ normTrace[c].log[e].entryNodes # <<>>
       /\ normTrace[c].log[e].entryItem.sys.id = "b2"
       /\ normTrace[c].log[e].entryItem.fields["name"]
            = [en |-> Str("Bo"), de |-> Str("Bodo")]
       /\ Prop(normTrace[c].log[e].entryNodes[1], "name") = Str("Bo")
  /\ \E c \in DOMAIN normTrace : \E e \in DOMAIN normTrace[c].log :
       /\ normTrace[c].log[e].locale = "de"
       /\ normTrace[c].log[e].entryNodes # <<>>
       /\ normTrace[c].log[e].entryItem.sys.id = "a1"
       /\ Prop(normTrace[c].log[e].entryNodes[1], "title") = Str("Hallo")

\* C14: in every emitted asset node, title and description are the
\* localized value when one resolves for the node's locale (after fallback)
\* and the empty string otherwise, never null or undefined.
AssetTextDefaultsToEmptyString ==
  AssetDone =>
    \A i \in DOMAIN assetCall.emitted :
      \A k \in {"title", "description"} :
        Prop(assetCall.emitted[i], k)
          = ValueOrEmpty(assetCall.assetItem.fields, k,
                         Prop(assetCall.emitted[i], "node_locale").s)

(***************************************************************************)
(* Specifications                                                          *)
(***************************************************************************)
InitId == idCall \in IdCalls /\ LocIdle /\ CacheIdle /\ ImgIdle /\ AssetIdle /\ NormIdle
NextId == CallMakeId
SpecId == InitId /\ [][NextId]_vars

InitLocale ==
  IdIdle /\ locCall \in LocCalls /\ CacheIdle /\ ImgIdle /\ AssetIdle /\ NormIdle
NextLocale == CallGetLocalizedField
SpecLocale == InitLocale /\ [][NextLocale]_vars

InitCache == IdIdle /\ LocIdle /\ CacheIdle /\ ImgIdle /\ AssetIdle /\ NormIdle
NextCache ==
  \/ \E imageProps \in ImagePropsInputs : GetBase64Image(imageProps)
  \/ \E p \in DOMAIN promises : LoadFulfils(p)
  \/ \E p \in DOMAIN promises : LoadRejects(p)
  \/ \E d \in DOMAIN promises : ThenReaction(d)
SpecCache == InitCache /\ [][NextCache]_vars

InitImage ==
  IdIdle /\ LocIdle /\ CacheIdle /\ imgCall \in ImgCalls /\ AssetIdle
  /\ NormIdle
NextImage ==
  \/ CallResolveFixed
  \/ CallResolveFluid
  \/ CallResolveResize
  \/ CallGenerateImageSource
SpecImage == InitImage /\ [][NextImage]_vars

InitNorm ==
  /\ IdIdle /\ LocIdle /\ CacheIdle /\ ImgIdle /\ AssetIdle
  /\ syncData \in Snapshots
  /\ nodeStore = EmptyObject
  /\ indexes = NoIndexes
  /\ normTrace = <<>>
  /\ normPc = [pass |-> 1, at |-> "synced", next |-> 1]
NextNorm ==
  \/ \E change \in Changes : Sync(change)
  \/ BuildIndexes
  \/ CreateNodesForContentType
SpecNorm == InitNorm /\ [][NextNorm]_vars

InitDrift ==
  /\ IdIdle /\ LocIdle /\ CacheIdle /\ ImgIdle /\ AssetIdle
  /\ syncData \in DriftSnapshots
  /\ nodeStore = EmptyObject
  /\ indexes = NoIndexes
  /\ normTrace = <<>>
  /\ normPc = [pass |-> 1, at |-> "synced", next |-> 1]
SpecDrift == InitDrift /\ [][NextNorm]_vars

InitBack ==
  /\ IdIdle /\ LocIdle /\ CacheIdle /\ ImgIdle /\ AssetIdle
  /\ syncData \in BackSnapshots
  /\ nodeStore = EmptyObject
  /\ indexes = NoIndexes
  /\ normTrace = <<>>
  /\ normPc = [pass |-> 1, at |-> "synced", next |-> 1]
SpecBack == InitBack /\ [][NextNorm]_vars

InitStale ==
  /\ IdIdle /\ LocIdle /\ CacheIdle /\ ImgIdle /\ AssetIdle
  /\ syncData \in StaleSnapshots
  /\ nodeStore = EmptyObject
  /\ indexes = NoIndexes
  /\ normTrace = <<>>
  /\ normPc = [pass |-> 1, at |-> "synced", next |-> 1]
SpecStale == InitStale /\ [][NextNorm]_vars

InitTwin ==
  /\ IdIdle /\ LocIdle /\ CacheIdle /\ ImgIdle /\ AssetIdle
  /\ syncData \in TwinSnapshots
  /\ nodeStore = EmptyObject
  /\ indexes = NoIndexes
  /\ normTrace = <<>>
  /\ normPc = [pass |-> 1, at |-> "synced", next |-> 1]
SpecTwin == InitTwin /\ [][NextNorm]_vars

InitOrphan ==
  /\ IdIdle /\ LocIdle /\ CacheIdle /\ ImgIdle /\ AssetIdle
  /\ syncData \in OrphanSnapshots
  /\ nodeStore = EmptyObject
  /\ indexes = NoIndexes
  /\ normTrace = <<>>
  /\ normPc = [pass |-> 1, at |-> "synced", next |-> 1]
SpecOrphan == InitOrphan /\ [][NextNorm]_vars

InitAsset ==
  IdIdle /\ LocIdle /\ CacheIdle /\ ImgIdle /\ assetCall \in AssetCalls
  /\ NormIdle
NextAsset == CreateAssetNodes \/ CreateAssetNodes_1246
SpecAsset == InitAsset /\ [][NextAsset]_vars

====
